---- MODULE Spec2Model ----
(***************************************************************************)
(* Model of the dual-database migration engine of stufio-framework:        *)
(*   stufio/core/migrations/manager.py  (MigrationManager)                 *)
(*   stufio/core/migrations/base.py     (MigrationScript.execute, ...)     *)
(*   models/migration.py                (Migration record, unique index)   *)
(*                                                                         *)
(* run_pending_migrations is modelled at the granularity of its awaits:    *)
(* one step loads the prior state, one step is one pass through the body   *)
(* of the innermost loop, one step returns.                                *)
(***************************************************************************)
EXTENDS Integers, Sequences, FiniteSets, TLC

\* ------------------------------------------------------------------ bounds
\* Largest number of script instances the registry may hold.
MaxScripts == 2

\* ------------------------------------------------- the files found on disk
\* Version strings are eight decimal digits (VERSION_PATTERN group 1); the
\* lexicographic order of equal-length digit strings is the numeric order,
\* so a version is modelled by its number.
Modules == {"stufio", "billing"}
Versions == {20250301, 20250401}

\* Migration classes that discovery can find: the directory they sit in
\* (module, version) and the attributes the class declares.
MigrationFiles ==
  { [module |-> "stufio",  version |-> 20250301, name |-> "create_user_collection",
     order |-> 10, database_type |-> "mongodb"],
    [module |-> "stufio",  version |-> 20250401, name |-> "create_user_group_collection",
     order |-> 15, database_type |-> "mongodb"],
    [module |-> "billing", version |-> 20250301, name |-> "01_init",
     order |-> 10, database_type |-> "mongodb"],
    [module |-> "billing", version |-> 20250301, name |-> "01_audit",
     order |-> 10, database_type |-> "mongodb"],
    [module |-> "billing", version |-> 20250301, name |-> "02_backfill",
     order |-> 20, database_type |-> "clickhouse"] }

\* What awaiting run(db) can end in: a normal return, an exception that is a
\* subclass of Exception (with its message), or a BaseException that is not
\* (asyncio.CancelledError).
RunOutcomes ==
  { [exc |-> "none",           msg |-> ""],
    [exc |-> "Exception",      msg |-> "boom"],
    [exc |-> "CancelledError", msg |-> ""] }

\* Optional[str]: None is the empty tuple, a string s is <<s>>.
None == << >>

\* str(e) of an exception built from one message argument.
Str(e) == e.msg

\* MigrationScript.get_checksum: md5 of the source of run; a script edited
\* after it ran has another checksum than the stored one.
get_checksum(script) == <<"md5", script.name>>
EditedChecksum == <<"md5", "edited">>

VARIABLES
  migrations,          \* self.migrations: module -> version -> list of scripts
  moduleOrder,         \* insertion order of the keys of self.migrations
  executed_migrations, \* self.executed_migrations
  failed_migrations,   \* self.failed_migrations
  store,               \* documents of the collection db.migrations
  uniqueIndex,         \* the unique index (module, version, name) exists
  pc,                  \* position of run_pending_migrations
  pos,                 \* index of the loop in the execution order
  clickhouse,          \* the call was given a columnar handle
  executed_count,      \* executed_count
  result,              \* value returned by the last call
  runLog,              \* runs invoked by the current call, in order
  last,                \* what the last step did
  repeat,              \* the current call repeats the previous one
  prev,                \* the previous call: a run raised an Exception (err),
                       \* at least one run was invoked (ran)
  \* -- the SQL rewriter of ClickhouseMigrationScript
  settings,            \* get_settings(): the two cluster settings
  sql,                 \* the script text handed to the rewriter
  transformed_sql,     \* what the rewriter returned
  sqlpc,               \* position of the rewriter
  \* -- ClickhouseMigrationScript.execute and ClusterAwareAsyncClient.command
  cmdpc,               \* position of execute / command
  run_db,              \* what run was given: the wrapper or the raw client
  statements,          \* statements
  statement_no,        \* index of the loop "for statement in statements"
  attempt,             \* attempt
  retry_delay,         \* retry_delay
  _original_client,    \* self._original_client
  _instance,           \* the client of _ClickhouseClientSingleton._instance, 0: None
  clients,             \* number of clients created so far
  closed,              \* clients whose close() was called
  sent,                \* statements sent to a client, with their outcome
  sleeps,              \* asyncio.sleep calls
  reconnects,          \* force_reconnect calls
  results,             \* results
  returned,            \* what execute returned
  \* -- discover_app_migrations / discover_module_migrations
  dirpc,               \* position in the loop over os.listdir
  scan_module,         \* scan_module
  version_dir,         \* version_dir
  isdir,               \* os.path.isdir(version_path)
  scanned,             \* directories handed to _discover_migrations
  registry,            \* scripts added to self.migrations, with their bucket
  \* -- two processes in run_migrations
  peer,                \* the manager of the process that is not at a step
  active,              \* the process whose manager the manager variables hold
  has_collection,      \* the collection "migrations" exists
  \* -- CRUDUser: create, update, authenticate
  userpc,              \* the last call of crud.user
  users,               \* documents of the collection of the model User
  email_index,         \* the unique index of User.email is in force
  password_set,        \* per user, the password most recently set for it
  authenticated        \* the last call of authenticate and what it returned

\* the variables of the manager
mvars == << migrations, moduleOrder, executed_migrations, failed_migrations,
            store, uniqueIndex, pc, pos, clickhouse, executed_count, result,
            runLog, last, repeat, prev >>

\* the variables of the SQL rewriter
svars == << settings, sql, transformed_sql, sqlpc >>

\* the variables of execute and of the wrapper
cvars == << cmdpc, run_db, statements, statement_no, attempt, retry_delay,
            _original_client, _instance, clients, closed, sent, sleeps,
            reconnects, results, returned >>

\* the variables of the discovery of version directories
dvars == << dirpc, scan_module, version_dir, isdir, scanned, registry >>

\* the variables of the second process and of the database
pvars == << peer, active, has_collection >>

\* the variables of crud.user
uvars == << userpc, users, email_index, password_set, authenticated >>

\* what the manager leaves alone
others == << svars, cvars, dvars, pvars, uvars >>

vars == << mvars, others >>

\* ------------------------------------------------------------- the manager
\* f"{module_name}:{version}:{migration.name}"
migration_key(module_name, version, name) == << module_name, version, name >>

NoKey == << "", 0, "" >>
NoOutcome == [exc |-> "none", msg |-> ""]
Event(op, key, outcome, retry, propagated, seq) ==
  [op |-> op, key |-> key, outcome |-> outcome, retry |-> retry,
   propagated |-> propagated, seq |-> seq]

\* Number of script instances in the registry.
RECURSIVE SumLen(_, _)
SumLen(f, S) ==
  IF S = {} THEN 0
  ELSE LET b == CHOOSE x \in S : TRUE
       IN Len(f[b[1]][b[2]]) + SumLen(f, S \ {b})
Registered == SumLen(migrations, Modules \X Versions)

\* list.sort(key=lambda m: m.order): a stable sort by order.
RECURSIVE InsertByOrder(_, _)
InsertByOrder(m, sorted) ==
  IF sorted = << >> THEN << m >>
  ELSE IF Head(sorted).order <= m.order
       THEN << Head(sorted) >> \o InsertByOrder(m, Tail(sorted))
       ELSE << m >> \o sorted

RECURSIVE SortFrom(_, _)
SortFrom(list, acc) ==
  IF list = << >> THEN acc
  ELSE SortFrom(Tail(list), InsertByOrder(Head(list), acc))

UnsortedMut(list) == list
SortByOrder(list) == SortFrom(list, << >>)

\* sorted(versions.keys())
RECURSIVE Ascending(_)
Ascending(S) ==
  IF S = {} THEN << >>
  ELSE LET lo == CHOOSE x \in S : \A y \in S : x <= y
       IN << lo >> \o Ascending(S \ {lo})

RECURSIVE Descending(_)
Descending(S) ==
  IF S = {} THEN << >>
  ELSE LET hi == CHOOSE x \in S : \A y \in S : x >= y
       IN << hi >> \o Descending(S \ {hi})

sorted_versionsMut(versions) ==
  Descending({ v \in Versions : versions[v] # << >> })
sorted_versions(versions) ==
  Ascending({ v \in Versions : versions[v] # << >> })

\* The three nested loops of run_pending_migrations, flattened: the
\* sequence of (module, version, migration) in the order the body sees them.
RECURSIVE BucketEntries(_, _, _)
BucketEntries(module_name, version, list) ==
  IF list = << >> THEN << >>
  ELSE << [module |-> module_name, version |-> version, migration |-> Head(list)] >>
       \o BucketEntries(module_name, version, Tail(list))

RECURSIVE VersionEntries(_, _, _)
VersionEntries(reg, module_name, vs) ==
  IF vs = << >> THEN << >>
  ELSE BucketEntries(module_name, Head(vs), SortByOrder(reg[module_name][Head(vs)]))
       \o VersionEntries(reg, module_name, Tail(vs))

RECURSIVE ModuleEntries(_, _)
ModuleEntries(reg, ms) ==
  IF ms = << >> THEN << >>
  ELSE VersionEntries(reg, Head(ms), sorted_versions(reg[Head(ms)]))
       \o ModuleEntries(reg, Tail(ms))

ExecutionOrder == ModuleEntries(migrations, moduleOrder)

\* get_executed_migrations: the keys of the stored records, partitioned by
\* the success flag.
SucceededKeysMut(docs) == {}
SucceededKeys(docs) ==
  { migration_key(docs[i].module, docs[i].version, docs[i].name) :
      i \in { j \in DOMAIN docs : docs[j].success } }
FailedKeys(docs) ==
  { migration_key(docs[i].module, docs[i].version, docs[i].name) :
      i \in { j \in DOMAIN docs : ~docs[j].success } }

\* "if migration_key in self.executed_migrations: continue"
already_executedMut(key, executed) == FALSE
already_executed(key, executed) == key \in executed

\* "is_retry = migration_key in self.failed_migrations"
is_retryMut(key, failed) == FALSE
is_retry(key, failed) == key \in failed

\* "if isinstance(migration, ClickhouseMigrationScript): if not clickhouse:"
clickhouse_unavailableMut(migration, handle) == FALSE
clickhouse_unavailable(migration, handle) ==
  migration.database_type = "clickhouse" /\ ~handle

\* "executed_count += 1", right after execute returned
count_runMut(count) == count
count_run(count) == count + 1

\* --------------------------------------------------------------- execute
\* A return statement inside a finally block discards the exception that is
\* in flight: the call returns value whatever inflight is.
finally_return(inflight, value) == [raised |-> "none", value |-> value]

Migration(module, version, script, type, success, error) ==
  [module |-> module, version |-> version, name |-> script.name,
   type |-> type, order |-> script.order, success |-> success,
   error |-> error, checksum |-> get_checksum(script)]

\* MigrationScript.execute: try run / except Exception / finally return.
execute(script, module, version, outcome) ==
  LET caught  == outcome.exc = "Exception"
      error   == IF caught THEN << Str(outcome) >> ELSE None
      success == ~caught
      \* "raise e" re-raises what was caught; a BaseException was never caught
      inflight == outcome.exc
  IN finally_return(inflight,
       Migration(module, version, script, script.database_type, success, error))

\* ClickhouseMigrationScript.execute: the same shape, type="clickhouse".
clickhouse_execute(script, module, version, outcome) ==
  LET caught  == outcome.exc = "Exception"
      error   == IF caught THEN << Str(outcome) >> ELSE None
      success == ~caught
      inflight == outcome.exc
  IN finally_return(inflight,
       Migration(module, version, script, "clickhouse", success, error))

\* ------------------------------------------------------------- the store
KeyOf(doc) == migration_key(doc.module, doc.version, doc.name)
Matching(docs, key) == { i \in DOMAIN docs : KeyOf(docs[i]) = key }
Count(docs, key) == Cardinality(Matching(docs, key))

\* insert_one: rejected with DuplicateKeyError when the unique index exists
\* and a document with the same (module, version, name) is stored.
insert_oneMut(docs, indexed, doc) ==
  [raised |-> "none", docs |-> Append(docs, doc)]
insert_one(docs, indexed, doc) ==
  IF indexed /\ Matching(docs, KeyOf(doc)) # {}
  THEN [raised |-> "DuplicateKeyError", docs |-> docs]
  ELSE [raised |-> "none", docs |-> Append(docs, doc)]

\* update_one(filter by key, {"$set": doc}): the first matching document
\* gets every field of doc; no match changes nothing.
update_one(docs, key, doc) ==
  IF Matching(docs, key) = {} THEN [raised |-> "none", docs |-> docs]
  ELSE LET i == CHOOSE j \in Matching(docs, key) :
                  \A k \in Matching(docs, key) : j <= k
       IN [raised |-> "none", docs |-> [docs EXCEPT ![i] = doc]]

\* "if is_retry: update_one(...) else: insert_one(...)"
save_recordMut(docs, indexed, retry, key, doc) ==
  IF ~doc.success THEN [raised |-> "none", docs |-> docs]
  ELSE IF retry THEN update_one(docs, key, doc)
  ELSE insert_one(docs, indexed, doc)
save_record(docs, indexed, retry, key, doc) ==
  IF retry THEN update_one(docs, key, doc)
  ELSE insert_one(docs, indexed, doc)

\* ------------------------------------------------------------------ Init
StoredRecord(f, success, error, checksum) ==
  [module |-> f.module, version |-> f.version, name |-> f.name,
   type |-> f.database_type, order |-> f.order, success |-> success,
   error |-> error, checksum |-> checksum]

UserFile == CHOOSE f \in MigrationFiles : f.name = "create_user_collection"

\* Collections left by earlier processes: at most one record per key.
InitialStores ==
  { << >>,
    << StoredRecord(UserFile, TRUE, None, EditedChecksum) >> }

\* ------------------------------------------------------------- SQL text
\* A text is a sequence of tokens.  Every whitespace character and every
\* punctuation character is a token of its own; a maximal run of word
\* characters (the class \w) is one token; the two fragments of the
\* coordination path that the rewriter itself writes are one token each.
\* The concatenation of the tokens is the Python string.
\* The backquote character is the token Backquote.
Backquote == "<backquote>"
Whitespace == {" ", "\n"}
Punctuation == {"(", ")", "=", ";", ".", Backquote, "'", ",", "*"}
PathTokens == {"/clickhouse/tables/{shard}/", "{replica}"}
IsWord(tok) == tok \notin Whitespace \cup Punctuation \cup PathTokens

\* str.upper() on one token; tokens without a cased letter map to themselves
UpperCase ==
  [create |-> "CREATE", table |-> "TABLE", engine |-> "ENGINE",
   select |-> "SELECT", mergetree |-> "MERGETREE", drop |-> "DROP",
   view |-> "VIEW", on |-> "ON", cluster |-> "CLUSTER",
   MergeTree |-> "MERGETREE", ReplacingMergeTree |-> "REPLACINGMERGETREE",
   ReplicatedMergeTree |-> "REPLICATEDMERGETREE",
   ReplicatedReplacingMergeTree |-> "REPLICATEDREPLACINGMERGETREE",
   Memory |-> "MEMORY", UInt64 |-> "UINT64", Int32 |-> "INT32",
   analytics |-> "ANALYTICS", db |-> "DB", events |-> "EVENTS",
   daily |-> "DAILY", id |-> "ID", ver |-> "VER", c |-> "C", a |-> "A",
   b |-> "B", prod |-> "PROD"]
  @@ ("/clickhouse/tables/{shard}/" :> "/CLICKHOUSE/TABLES/{SHARD}/")
  @@ ("{replica}" :> "{REPLICA}")
upper(text) ==
  [i \in DOMAIN text |->
     IF text[i] \in DOMAIN UpperCase THEN UpperCase[text[i]] ELSE text[i]]

\* str.strip(): leading and trailing whitespace removed
RECURSIVE lstrip(_)
lstrip(text) ==
  IF text # << >> /\ Head(text) \in Whitespace THEN lstrip(Tail(text)) ELSE text
RECURSIVE rstrip(_)
rstrip(text) ==
  IF text # << >> /\ text[Len(text)] \in Whitespace
  THEN rstrip(SubSeq(text, 1, Len(text) - 1)) ELSE text
strip(text) == rstrip(lstrip(text))

\* str.strip(<backquote>) and str.strip("()"): the given characters removed at both ends
RECURSIVE strip_chars(_, _)
strip_chars(text, chars) ==
  IF text # << >> /\ Head(text) \in chars THEN strip_chars(Tail(text), chars)
  ELSE IF text # << >> /\ text[Len(text)] \in chars
       THEN strip_chars(SubSeq(text, 1, Len(text) - 1), chars)
  ELSE text

\* str.startswith and the "in" test of one string in another
startswith(text, prefix) ==
  /\ Len(text) >= Len(prefix)
  /\ SubSeq(text, 1, Len(prefix)) = prefix
contains(text, part) ==
  \E i \in 1 .. Len(text) - Len(part) + 1 :
    SubSeq(text, i, i + Len(part) - 1) = part

\* str.split(";"): the pieces between the semicolons, empty pieces included
RECURSIVE split(_)
split(text) ==
  IF \A i \in DOMAIN text : text[i] # ";" THEN << text >>
  ELSE LET i == CHOOSE k \in DOMAIN text :
                  text[k] = ";" /\ \A j \in 1 .. k - 1 : text[j] # ";"
       IN << SubSeq(text, 1, i - 1) >> \o split(SubSeq(text, i + 1, Len(text)))

\* ";\n".join(texts)
RECURSIVE join(_)
join(texts) ==
  IF texts = << >> THEN << >>
  ELSE IF Len(texts) = 1 THEN texts[1]
  ELSE texts[1] \o << ";", "\n" >> \o join(Tail(texts))

\* str.replace(old, new): every occurrence, left to right, not overlapping
RECURSIVE replace(_, _, _)
replace(text, old, new) ==
  IF Len(text) < Len(old) THEN text
  ELSE IF SubSeq(text, 1, Len(old)) = old
       THEN new \o replace(SubSeq(text, Len(old) + 1, Len(text)), old, new)
  ELSE << Head(text) >> \o replace(Tail(text), old, new)

\* "[s.strip() for s in sql.split(';') if s.strip()]"
NonEmpty(text) == text # << >>
Stripped(texts) == [i \in DOMAIN texts |-> strip(texts[i])]
_split_sql_statements(text) == SelectSeq(Stripped(split(text)), NonEmpty)

\* ----------------------------------------------------- regular expressions
\* A matcher takes a text and the index of the next unread token and
\* returns the index after what it consumed, 0 when it does not match.
\* "\s*" and "\s+" are always followed by something that is not whitespace,
\* so they consume the whole run.
RECURSIVE SkipSpace(_, _)
SkipSpace(text, i) ==
  IF i <= Len(text) /\ text[i] \in Whitespace THEN SkipSpace(text, i + 1) ELSE i
Space(text, i) ==
  IF i = 0 THEN 0 ELSE IF SkipSpace(text, i) > i THEN SkipSpace(text, i) ELSE 0
\* a keyword under re.IGNORECASE
Keyword(text, i, words) ==
  IF i # 0 /\ i <= Len(text) /\ upper(<< text[i] >>)[1] \in words
  THEN i + 1 ELSE 0
\* a keyword and the "\s+" after it
KeywordSpace(text, i, words) == Space(text, Keyword(text, i, words))
\* "(?:...)?": the group is tried first; the caller falls back on the index
\* before the group when the rest of the pattern fails after it
Optional(i, after) == IF after # 0 THEN after ELSE i

\* "B?[\w]+B?", B the backquote
QuotedWord(text, i) ==
  IF i = 0 THEN 0
  ELSE LET j == IF i <= Len(text) /\ text[i] = Backquote THEN i + 1 ELSE i
       IN IF j <= Len(text) /\ IsWord(text[j])
          THEN IF j + 1 <= Len(text) /\ text[j + 1] = Backquote THEN j + 2 ELSE j + 1
          ELSE 0

\* "B?[^.\s]+B?(?:\.B?[^.\s]+B?)?": no whitespace, at most one dot, and the
\* dot neither first nor last
IsName(text) ==
  /\ text # << >>
  /\ \A i \in DOMAIN text : text[i] \notin Whitespace
  /\ Cardinality({i \in DOMAIN text : text[i] = "."}) <= 1
  /\ text[1] # "."
  /\ text[Len(text)] # "."

NoMatch == [matched |-> FALSE]

\* create_table_pattern.match(statement): groups 2 and 3
create_table_pattern(statement) ==
  LET p1 == KeywordSpace(statement, 1, {"CREATE"})
      p2 == Optional(p1, KeywordSpace(statement,
                           KeywordSpace(statement, p1, {"OR"}), {"REPLACE"}))
      p3 == KeywordSpace(statement, p2, {"TABLE"})
      p4 == KeywordSpace(statement, KeywordSpace(statement,
               KeywordSpace(statement, p3, {"IF"}), {"NOT"}), {"EXISTS"})
      p5 == IF p4 # 0 /\ QuotedWord(statement, p4) # 0 THEN p4 ELSE p3
      q1 == QuotedWord(statement, p5)
      q2 == IF q1 # 0 /\ q1 <= Len(statement) /\ statement[q1] = "."
            THEN QuotedWord(statement, q1 + 1) ELSE 0
  IN IF q1 = 0 THEN NoMatch
     ELSE IF q2 # 0
          THEN [matched |-> TRUE,
                db_name |-> SubSeq(statement, p5, q1 - 1),
                table_name |-> SubSeq(statement, q1 + 1, q2 - 1)]
     ELSE [matched |-> TRUE, db_name |-> << >>,
           table_name |-> SubSeq(statement, p5, q1 - 1)]

\* engine_pattern matched at token i: "ENGINE\s*=\s*([a-zA-Z0-9_]+)(\([^)]*\))?"
EngineAt(statement, i) ==
  LET p1 == Keyword(statement, i, {"ENGINE"})
      p2 == IF p1 = 0 THEN 0 ELSE SkipSpace(statement, p1)
      p3 == IF p2 # 0 /\ p2 <= Len(statement) /\ statement[p2] = "="
            THEN SkipSpace(statement, p2 + 1) ELSE 0
      ok == p3 # 0 /\ p3 <= Len(statement) /\ IsWord(statement[p3])
      closes == {k \in p3 + 2 .. Len(statement) : statement[k] = ")"}
      close == CHOOSE k \in closes : \A j \in closes : k <= j
      params == IF p3 + 1 <= Len(statement) /\ statement[p3 + 1] = "("
                   /\ closes # {}
                THEN SubSeq(statement, p3 + 1, close) ELSE << >>
  IN IF ok THEN [matched |-> TRUE, start |-> i,
                 engine_name |-> statement[p3], engine_params |-> params]
     ELSE NoMatch

\* engine_pattern.search(statement): the leftmost match
engine_pattern(statement) ==
  LET at == {i \in DOMAIN statement : EngineAt(statement, i).matched}
  IN IF at = {} THEN NoMatch
     ELSE EngineAt(statement, CHOOSE i \in at : \A j \in at : i <= j)

\* the name and the rest after a matched prefix that ends before token i;
\* "paren" says that "\s*(\(.*)" has to follow the name.  The name is as
\* long as it can be.
NameAndRest(statement, i, paren) ==
  LET ends == {k \in i .. Len(statement) :
                 /\ IsName(SubSeq(statement, i, k))
                 /\ paren => LET r == SkipSpace(statement, k + 1)
                             IN r <= Len(statement) /\ statement[r] = "("}
      k == CHOOSE e \in ends : \A j \in ends : j <= e
  IN IF i = 0 \/ ends = {} THEN NoMatch
     ELSE [matched |-> TRUE,
           prefix |-> SubSeq(statement, 1, i - 1),
           table_name |-> SubSeq(statement, i, k),
           rest |-> IF paren
                    THEN SubSeq(statement, SkipSpace(statement, k + 1), Len(statement))
                    ELSE SubSeq(statement, k + 1, Len(statement))]

\* a pattern whose last prefix element is optional: with the group first
WithOptional(statement, without, with, paren) ==
  IF with # 0 /\ NameAndRest(statement, with, paren).matched
  THEN NameAndRest(statement, with, paren)
  ELSE NameAndRest(statement, without, paren)

\* create_pattern.match(statement)
create_pattern(statement) ==
  LET p1 == KeywordSpace(statement, 1, {"CREATE"})
      p2 == Optional(p1, KeywordSpace(statement,
                           KeywordSpace(statement, p1, {"OR"}), {"REPLACE"}))
      p3 == Optional(p2, KeywordSpace(statement, p2, {"MATERIALIZED"}))
      p4 == KeywordSpace(statement, p3, {"TABLE", "VIEW"})
      p5 == KeywordSpace(statement, KeywordSpace(statement,
               KeywordSpace(statement, p4, {"IF"}), {"NOT"}), {"EXISTS"})
  IN WithOptional(statement, p4, p5, TRUE)

\* drop_pattern.match(statement)
drop_pattern(statement) ==
  LET p1 == KeywordSpace(statement, 1, {"DROP"})
      p2 == KeywordSpace(statement, p1, {"TABLE", "VIEW"})
      p3 == KeywordSpace(statement, KeywordSpace(statement, p2, {"IF"}), {"EXISTS"})
  IN WithOptional(statement, p2, p3, FALSE)

\* alter_pattern.match(statement)
alter_pattern(statement) ==
  LET p1 == KeywordSpace(statement, 1, {"ALTER"})
      p2 == KeywordSpace(statement, p1, {"TABLE"})
  IN NameAndRest(statement, p2, FALSE)

\* ------------------------------------------------------------ the rewriter
\* The settings object: the node list and the cluster name.  A name that
\* is None and a name that is '' are both the empty string here: the code
\* only tests the name's truth value and compares it with strings.
_is_cluster_enabled(s) ==
  /\ s.CLICKHOUSE_CLUSTER_DSN_LIST # << >>
  /\ s.CLICKHOUSE_CLUSTER_NAME # ""
  /\ s.CLICKHOUSE_CLUSTER_NAME \notin {"None", "none", ""}

\* get_database_from_dsn(): the database named by the path of CLICKHOUSE_DSN
get_database_from_dsn == "analytics"

\* f" ON CLUSTER '{cluster_name}'"
OnClusterClause(cluster_name) ==
  << " ", "ON", " ", "CLUSTER", " ", "'", cluster_name, "'" >>

ddl_keywords ==
  { << "CREATE", " ", "TABLE" >>, << "CREATE", " ", "OR", " ", "REPLACE", " ", "TABLE" >>,
    << "CREATE", " ", "VIEW" >>, << "CREATE", " ", "MATERIALIZED", " ", "VIEW" >>,
    << "DROP", " ", "TABLE" >>, << "DROP", " ", "VIEW" >>, << "ALTER", " ", "TABLE" >>,
    << "RENAME", " ", "TABLE" >>, << "TRUNCATE", " ", "TABLE" >> }
create_keywords ==
  { k \in ddl_keywords : k[1] = "CREATE" }
drop_keywords ==
  { k \in ddl_keywords : k[1] = "DROP" }
alter_keywords ==
  { k \in ddl_keywords : k[1] = "ALTER" }
StartsWithAny(text, prefixes) == \E k \in prefixes : startswith(text, k)

\* "'ON CLUSTER' in statement_upper"
has_on_clusterMut(statement_upper) == FALSE
has_on_cluster(statement_upper) ==
  contains(statement_upper, << "ON", " ", "CLUSTER" >>)

_add_on_cluster_if_needed(s, statement) ==
  LET cluster_name == s.CLICKHOUSE_CLUSTER_NAME
      statement_upper == strip(upper(statement))
      clause == OnClusterClause(cluster_name)
      c == create_pattern(statement)
      d == drop_pattern(statement)
      a == alter_pattern(statement)
  IN IF ~_is_cluster_enabled(s) THEN statement
     ELSE IF cluster_name \in {"", "None", "none"} THEN statement
     ELSE IF ~StartsWithAny(statement_upper, ddl_keywords) THEN statement
     ELSE IF has_on_cluster(statement_upper) THEN statement
     ELSE IF StartsWithAny(statement_upper, create_keywords)
          THEN IF c.matched
               THEN c.prefix \o c.table_name \o clause \o << " " >> \o c.rest
               ELSE statement
     ELSE IF StartsWithAny(statement_upper, drop_keywords)
          THEN IF d.matched
               THEN d.prefix \o d.table_name \o clause \o d.rest
               ELSE statement
     ELSE IF StartsWithAny(statement_upper, alter_keywords)
          THEN IF a.matched
               THEN a.prefix \o a.table_name \o clause \o a.rest
               ELSE statement
     ELSE statement

dml_keywords == {"SELECT", "INSERT", "UPDATE", "DELETE", "WITH"}

\* '"MergeTree" in engine_name' and '"Replicated" in engine_name'
MergeTreeEngines ==
  {"MergeTree", "ReplacingMergeTree", "SummingMergeTree",
   "ReplicatedMergeTree", "ReplicatedReplacingMergeTree"}
ReplicatedEngines ==
  {"ReplicatedMergeTree", "ReplicatedReplacingMergeTree"}

\* f"ENGINE = {engine_name}{engine_params}"
EngineClause(engine_name, engine_params) ==
  << "ENGINE", " ", "=", " ", engine_name >> \o engine_params

\* f"'/clickhouse/tables/{{shard}}/{clean_db_name}.{clean_table_name}'"
zookeeper_path(db_name, table_name) ==
  LET clean_db_name == strip_chars(db_name, {Backquote})
      clean_table_name == strip_chars(table_name, {Backquote})
  IN << "'", "/clickhouse/tables/{shard}/" >>
     \o (IF clean_db_name = << >> THEN << get_database_from_dsn >> ELSE clean_db_name)
     \o << "." >> \o clean_table_name \o << "'" >>

replicated_engine_params(db_name, table_name, engine_params) ==
  IF strip(engine_params) \in { << >>, << "(", ")" >> }
  THEN << "(" >> \o zookeeper_path(db_name, table_name)
       \o << ",", " ", "'", "{replica}", "'", ")" >>
  ELSE << "(" >> \o zookeeper_path(db_name, table_name)
       \o << ",", " ", "'", "{replica}", "'", ",", " " >>
       \o strip_chars(engine_params, {"(", ")"}) \o << ")" >>

\* the engine conversion of one CREATE TABLE statement
convert_engine(statement, t, e) ==
  replace(statement,
          EngineClause(e.engine_name, e.engine_params),
          EngineClause("Replicated" \o e.engine_name,
                       replicated_engine_params(t.db_name, t.table_name,
                                                e.engine_params)))

\* the body of the loop of _transform_sql_for_cluster for one statement
transform_statement(s, statement) ==
  LET statement_upper == strip(upper(statement))
      t == create_table_pattern(statement)
      e == engine_pattern(statement)
  IN IF \E k \in dml_keywords : startswith(statement_upper, << k >>)
     THEN statement
     ELSE IF t.matched /\ (\E i \in DOMAIN statement : upper(statement)[i] = "ENGINE")
             /\ e.matched
          THEN IF e.engine_name \in MergeTreeEngines
                  /\ e.engine_name \notin ReplicatedEngines
               THEN _add_on_cluster_if_needed(s, convert_engine(statement, t, e))
               ELSE _add_on_cluster_if_needed(s, statement)
     ELSE _add_on_cluster_if_needed(s, statement)

TransformAll(s, texts) ==
  [i \in DOMAIN texts |-> transform_statement(s, texts[i])]

_transform_sql_for_cluster(s, text) ==
  IF ~_is_cluster_enabled(s) THEN text
  ELSE join(SelectSeq(TransformAll(s, _split_sql_statements(text)), NonEmpty))

\* ------------------------------------------------- the scripts being rewritten
\* Largest number of statements in one script.
MaxStatements == 2

\* table and view names: bare, qualified, quoted
TableNames ==
  { << "events" >>, << "db", ".", "events" >>, << Backquote, "db", Backquote, ".", Backquote, "events", Backquote >> }

OnClusterProd == OnClusterClause("prod")

\* ENGINE clauses as migration authors write them
EngineClauses ==
  { << "ENGINE", " ", "=", " ", "MergeTree", "(", ")" >>,
    << "ENGINE", " ", "=", " ", "MergeTree" >>,
    << "ENGINE", "=", "MergeTree", "(", ")" >>,
    << "engine", " ", "=", " ", "MergeTree", "(", ")" >>,
    << "ENGINE", " ", "=", " ", "ReplacingMergeTree", "(", "ver", ")" >>,
    << "ENGINE", " ", "=", " ", "ReplicatedMergeTree", "(", "'", "/clickhouse/tables/{shard}/",
       "db", ".", "events", "'", ",", " ", "'", "{replica}", "'", ")" >>,
    << "ENGINE", " ", "=", " ", "Memory" >> }

Columns == << "(", "id", " ", "UInt64", ",", " ", "ver", " ", "UInt64", ")" >>
OrderBy == << " ", "ORDER", " ", "BY", " ", "id" >>

CreateTableStatements ==
  { head \o ine \o name \o onc \o << " " >> \o Columns \o << " " >> \o eng \o OrderBy :
      head \in { << "CREATE", " ", "TABLE", " " >>,
                 << "CREATE", " ", "OR", " ", "REPLACE", " ", "TABLE", " " >>,
                 << "create", " ", "table", " " >> },
      ine \in { << >>, << "IF", " ", "NOT", " ", "EXISTS", " " >> },
      name \in TableNames,
      onc \in { << >>, OnClusterProd },
      eng \in EngineClauses }

SelectOne == << "SELECT", " ", "1" >>

CreateViewStatements ==
  { head \o name \o onc \o body :
      head \in { << "CREATE", " ", "VIEW", " " >>,
                 << "CREATE", " ", "MATERIALIZED", " ", "VIEW", " " >>,
                 << "CREATE", " ", "VIEW", " ", "IF", " ", "NOT", " ", "EXISTS", " " >> },
      name \in TableNames,
      onc \in { << >>, OnClusterProd },
      body \in { << " ", "AS", " " >> \o SelectOne,
                 << " ", "(", "id", " ", "UInt64", ")", " ", "AS", " " >> \o SelectOne,
                 << " ", "TO", " ", "daily", " ", "AS", " " >> \o SelectOne } }

DropStatements ==
  { head \o ie \o name \o onc \o tail :
      head \in { << "DROP", " ", "TABLE", " " >>, << "DROP", " ", "VIEW", " " >>,
                 << "drop", " ", "table", " " >> },
      ie \in { << >>, << "IF", " ", "EXISTS", " " >> },
      name \in TableNames,
      onc \in { << >>, OnClusterProd },
      tail \in { << >>, << " ", "SYNC" >> } }

AlterStatements ==
  { << "ALTER", " ", "TABLE", " " >> \o name \o onc \o tail :
      name \in TableNames,
      onc \in { << >>, OnClusterProd },
      tail \in { << " ", "ADD", " ", "COLUMN", " ", "c", " ", "Int32" >>,
                 << " ", "DROP", " ", "COLUMN", " ", "c" >> } }

\* statements the rewriter has no branch for
OtherStatements ==
  { << "TRUNCATE", " ", "TABLE", " ", "events" >>,
    << "RENAME", " ", "TABLE", " ", "events", " ", "TO", " ", "daily" >>,
    << "OPTIMIZE", " ", "TABLE", " ", "events" >> }

DmlStatements ==
  { SelectOne,
    << "select", " ", "1" >>,
    << "SELECT", " ", "*", " ", "FROM", " ", "events" >>,
    << "INSERT", " ", "INTO", " ", "events", " ", "VALUES", " ", "(", "1", ",", " ", "1", ")" >>,
    << "INSERT", " ", "INTO", " ", "events", " ", "VALUES", " ", "(", "1", ",", " ", "'", "a", ";", "b", "'", ")" >>,
    << "UPDATE", " ", "events", " ", "SET", " ", "ver", " ", "=", " ", "1" >>,
    << "DELETE", " ", "FROM", " ", "events", " ", "WHERE", " ", "id", " ", "=", " ", "1" >>,
    << "WITH", " ", "1", " ", "AS", " ", "c", " ", "SELECT", " ", "c" >> }

DdlStatements ==
  CreateTableStatements \cup CreateViewStatements \cup DropStatements
    \cup AlterStatements \cup OtherStatements

Statements == DdlStatements \cup DmlStatements

\* scripts of several statements, written with the separators authors use
ScriptStatements ==
  { << "CREATE", " ", "TABLE", " ", "events", " " >> \o Columns \o << " " >>
      \o << "ENGINE", " ", "=", " ", "MergeTree", "(", ")" >> \o OrderBy,
    << "DROP", " ", "TABLE", " ", "events" >>,
    << "INSERT", " ", "INTO", " ", "events", " ", "VALUES", " ", "(", "1", ",", " ", "1", ")" >>,
    SelectOne }
Separators == { << ";" >>, << ";", "\n" >>, << ";", " ", ";", "\n" >> }

RECURSIVE ScriptsOf(_)
ScriptsOf(n) ==
  IF n = 1 THEN { st \o sep : st \in ScriptStatements, sep \in { << >>, << ";" >>, << ";", "\n" >> } }
  ELSE { st \o sep \o script :
           st \in ScriptStatements, sep \in Separators, script \in ScriptsOf(n - 1) }
Scripts == UNION { ScriptsOf(n) : n \in 1 .. MaxStatements }

Inputs == Statements \cup Scripts

\* the configurations of the two cluster settings
Settings ==
  [ CLICKHOUSE_CLUSTER_DSN_LIST : { << >>, << "clickhouse://ch1", "clickhouse://ch2" >> },
    CLICKHOUSE_CLUSTER_NAME : { "", "None", "none", "prod" } ]

\* ------------------------------------------------- the retry-aware wrapper
\* "max_retries = 3" and "retry_delay = 2", set anew for every statement
max_retries == 3
initial_retry_delay == 2

\* "retry_delay *= 2"
backoffMut(delay) == delay
backoff(delay) == delay * 2

\* The text of an error is a text of tokens, like a script.
connection_errors ==
  { << "Connection", " ", "broken" >>, << "IncompleteRead" >>,
    << "Connection", " ", "closed" >>, << "Connection", " ", "lost" >>,
    << "Connection", " ", "refused" >>, << "Connection", " ", "timeout" >>,
    << "Network", " ", "is", " ", "unreachable" >>,
    << "Connection", " ", "reset" >> }

\* "any(error_type in str(e) for error_type in connection_errors)"
is_connection_errorMut(e) == TRUE
is_connection_error(e) ==
  \E error_type \in connection_errors : contains(Str(e), error_type)

\* '"Connection broken" in str(e) or "IncompleteRead" in str(e)'
severe_connection_errorMut(e) == FALSE
severe_connection_error(e) ==
  \/ contains(Str(e), << "Connection", " ", "broken" >>)
  \/ contains(Str(e), << "IncompleteRead" >>)

\* what a client's command can do with one statement
Succeeded == [exc |-> "none", msg |-> << >>]
ConnectionBroken ==
  [exc |-> "Exception",
   msg |-> << "Connection", " ", "broken", ":", " ", "IncompleteRead" >>]
ConnectionReset ==
  [exc |-> "Exception",
   msg |-> << "Connection", " ", "reset", " ", "by", " ", "peer" >>]
SyntaxError ==
  [exc |-> "Exception", msg |-> << "Syntax", " ", "error" >>]
CommandOutcomes == { Succeeded, ConnectionBroken, ConnectionReset, SyntaxError }

\* the scripts a migration hands to db.command
CommandStatements ==
  { << "DROP", " ", "TABLE", " ", "events" >>,
    << "INSERT", " ", "INTO", " ", "events", " ", "VALUES", " ", "(", "1", ",", " ", "1", ")" >> }
RECURSIVE CommandScriptsOf(_)
CommandScriptsOf(n) ==
  IF n = 0 THEN { << >> }
  ELSE { st \o << ";", "\n" >> \o script :
           st \in CommandStatements, script \in CommandScriptsOf(n - 1) }
CommandScripts ==
  UNION { CommandScriptsOf(n) : n \in 0 .. MaxStatements }
    \cup { << "INSERT", " ", "INTO", " ", "events", " ", "VALUES", " ",
              "(", "1", ",", " ", "'", "a", ";", "b", "'", ")" >> }

\* the columnar migration being executed
BackfillFile == CHOOSE f \in MigrationFiles : f.database_type = "clickhouse"
BackfillScript ==
  [name |-> BackfillFile.name, order |-> BackfillFile.order,
   database_type |-> BackfillFile.database_type]

\* a second columnar migration of the same bucket
RollupFile ==
  [module |-> BackfillFile.module, version |-> BackfillFile.version,
   name |-> "03_rollup", order |-> 30, database_type |-> "clickhouse"]

\* "if self._is_cluster_enabled(): db_wrapper = ClusterAwareAsyncClient(...)"
wraps_clientMut(s) == FALSE
wraps_client(s) == _is_cluster_enabled(s)

\* "[stmt.strip() for stmt in transformed_sql.split(';') if stmt.strip()]"
command_statementsMut(text) == Stripped(split(text))
command_statements(text) == SelectSeq(Stripped(split(text)), NonEmpty)

\* "return results[-1] if results else None"
command_result(list) == IF list # << >> THEN << list[Len(list)] >> ELSE None

\* one entry of the three logs; statement 0 is a script sent whole
Sent(no, try, client, outcome) ==
  [statement |-> no, attempt |-> try, client |-> client, outcome |-> outcome,
   on_closed |-> client \in closed,
   text |-> IF no = 0 THEN sql ELSE statements[no],
   migration |-> pos]
Slept(no, try, delay) == [statement |-> no, attempt |-> try, delay |-> delay]
Reconnected(no, try, success) ==
  [statement |-> no, attempt |-> try, success |-> success,
   closed_client |-> _instance, migration |-> pos]

\* execute and the wrapper at rest
CmdIdle ==
  /\ cmdpc = "idle"
  /\ run_db = "none"
  /\ statements = << >>
  /\ statement_no = 0
  /\ attempt = 0
  /\ retry_delay = 0
  /\ _original_client = 0
  /\ _instance = 0
  /\ clients = 0
  /\ closed = {}
  /\ sent = << >>
  /\ sleeps = << >>
  /\ reconnects = << >>
  /\ results = << >>
  /\ returned = [raised |-> "none", value |-> None]

\* ------------------------------------------------- version directories
\* A directory name is a sequence of characters.  "\d" of a str pattern
\* matches every Unicode decimal digit; FullwidthOne stands for one that is
\* not ASCII.
FullwidthOne == "<fullwidth 1>"
DecimalDigits ==
  {"0", "1", "2", "3", "4", "5", "6", "7", "8", "9", FullwidthOne}

\* VERSION_PATTERN.match(version_dir) for r'^v(\d{8})$': "$" matches at the
\* end of the string and also just before a newline that ends the string
VERSION_PATTERN(name) ==
  IF /\ Len(name) >= 9
     /\ name[1] = "v"
     /\ \A i \in 2 .. 9 : name[i] \in DecimalDigits
     /\ \/ Len(name) = 9
        \/ Len(name) = 10 /\ name[10] = "\n"
  THEN [matched |-> TRUE, version |-> SubSeq(name, 2, 9)]
  ELSE NoMatch

\* version_dir.startswith('__')
IsSpecialDir(name) ==
  Len(name) >= 2 /\ name[1] = "_" /\ name[2] = "_"

\* the names found by os.listdir in a migrations tree
SevenDigits == << "2", "0", "2", "5", "0", "1", "0" >>
DirNames ==
  { head \o SevenDigits \o digits \o tail :
      head \in { << "v" >>, << "V" >>, << >>, << "_", "_", "v" >>, << "r", "v" >> },
      digits \in { << >>, << "1" >>, << "1", "1" >>, << "a" >>, << FullwidthOne >> },
      tail \in { << >>, << "\n" >>, << "\n", "\n" >>, << "a" >>, << " " >> } }
    \cup { << "n", "o", "t", "_", "a", "_", "v", "e", "r", "s", "i", "o", "n" >>,
           << "v" >>, << "_", "_", "p", "y", "c", "a", "c", "h", "e", "_", "_" >> }

\* discovery at rest
DirIdle ==
  /\ dirpc = "idle"
  /\ scan_module = ""
  /\ version_dir = << >>
  /\ isdir = FALSE
  /\ scanned = << >>
  /\ registry = {}

\* a single process, the collection in place
NoPeer == [pc |-> "none"]
TwoIdle ==
  /\ peer = NoPeer
  /\ active = 1
  /\ has_collection = TRUE

\* crud.user is not called, the collection of users is empty
UserIdle ==
  /\ userpc = "idle"
  /\ users = << >>
  /\ email_index = TRUE
  /\ password_set = << >>
  /\ authenticated = << >>

\* the manager at rest, while another component is exercised
ManagerIdle ==
  /\ migrations = [m \in Modules |-> [v \in Versions |-> << >>]]
  /\ moduleOrder = << >>
  /\ executed_migrations = {}
  /\ failed_migrations = {}
  /\ store = << >>
  /\ uniqueIndex = TRUE
  /\ pc = "idle"
  /\ pos = 1
  /\ clickhouse = FALSE
  /\ executed_count = 0
  /\ result = 0
  /\ runLog = << >>
  /\ last = Event("init", NoKey, NoOutcome, FALSE, FALSE, 0)
  /\ repeat = FALSE
  /\ prev = [err |-> FALSE, ran |-> FALSE]

\* the rewriter at rest
SqlIdle ==
  /\ settings = [CLICKHOUSE_CLUSTER_DSN_LIST |-> << >>, CLICKHOUSE_CLUSTER_NAME |-> ""]
  /\ sql = << >>
  /\ transformed_sql = << >>
  /\ sqlpc = "idle"

Init ==
  /\ migrations = [m \in Modules |-> [v \in Versions |-> << >>]]
  /\ moduleOrder = << >>
  /\ executed_migrations = {}
  /\ failed_migrations = {}
  /\ store \in InitialStores
  /\ uniqueIndex \in BOOLEAN
  /\ pc = "idle"
  /\ pos = 1
  /\ clickhouse = FALSE
  /\ executed_count = 0
  /\ result = 0
  /\ runLog = << >>
  /\ last = Event("init", NoKey, NoOutcome, FALSE, FALSE, 0)
  /\ repeat = FALSE
  /\ prev = [err |-> FALSE, ran |-> FALSE]
  /\ SqlIdle
  /\ CmdIdle
  /\ DirIdle
  /\ TwoIdle
  /\ UserIdle

\* --------------------------------------------------------------- actions
\* _discover_migrations for a directory holding one file with one class:
\* the instance gets the directory's version and is appended to the list of
\* its module and version.
_discover_migrations(f) ==
  /\ pc # "running"
  /\ Registered < MaxScripts
  /\ LET script == [name |-> f.name, order |-> f.order,
                    database_type |-> f.database_type,
                    version |-> f.version,
                    seq |-> Len(migrations[f.module][f.version]) + 1]
     IN migrations' = [migrations EXCEPT ![f.module][f.version] = Append(@, script)]
  /\ moduleOrder' = IF \E i \in DOMAIN moduleOrder : moduleOrder[i] = f.module
                    THEN moduleOrder ELSE Append(moduleOrder, f.module)
  /\ last' = Event("discover", NoKey, NoOutcome, FALSE, FALSE, 0)
  /\ repeat' = FALSE
  /\ pc' = "idle"
  /\ UNCHANGED << executed_migrations, failed_migrations, store, uniqueIndex,
                  pos, clickhouse, executed_count, result, runLog, prev >>
  /\ UNCHANGED others

\* run_pending_migrations up to the loops: get_executed_migrations and
\* executed_count = 0.
run_pending_migrations(handle) ==
  /\ pc # "running"
  /\ executed_migrations' = SucceededKeys(store)
  /\ failed_migrations' = FailedKeys(store)
  /\ executed_count' = 0
  /\ clickhouse' = handle
  /\ pos' = 1
  /\ runLog' = << >>
  /\ repeat' = (pc = "returned" /\ handle = clickhouse)
  /\ prev' = [err |-> \E i \in DOMAIN runLog : runLog[i].outcome.exc = "Exception",
               ran |-> runLog # << >>]
  /\ pc' = "running"
  /\ last' = Event("load", NoKey, NoOutcome, FALSE, FALSE, 0)
  /\ result' = 0
  /\ UNCHANGED << migrations, moduleOrder, store, uniqueIndex >>
  /\ UNCHANGED others

\* One pass through the body of "for migration in migrations".
LoopBody(outcome) ==
  /\ pc = "running"
  /\ pos <= Len(ExecutionOrder)
  /\ LET e == ExecutionOrder[pos]
         migration == e.migration
         key == migration_key(e.module, e.version, migration.name)
         retry == is_retry(key, failed_migrations)
         res == IF migration.database_type = "clickhouse"
                THEN clickhouse_execute(migration, e.module, e.version, outcome)
                ELSE execute(migration, e.module, e.version, outcome)
         saved == save_record(store, uniqueIndex, retry, key, res.value)
         entry == [module |-> e.module, version |-> e.version,
                   migration |-> migration, outcome |-> outcome]
     IN /\ migrations' = [migrations EXCEPT ![e.module][e.version] = SortByOrder(@)]
        /\ IF already_executed(key, executed_migrations)
           THEN \* continue
                /\ outcome = NoOutcome
                /\ pos' = pos + 1
                /\ last' = Event("skip", key, NoOutcome, FALSE, FALSE, migration.seq)
                /\ UNCHANGED << executed_migrations, store, pc, executed_count, runLog >>
           ELSE IF clickhouse_unavailable(migration, clickhouse)
           THEN \* logger.error(...); continue
                /\ outcome = NoOutcome
                /\ pos' = pos + 1
                /\ last' = Event("unavailable", key, NoOutcome, retry, FALSE, migration.seq)
                /\ UNCHANGED << executed_migrations, store, pc, executed_count, runLog >>
           ELSE IF res.raised # "none"
           THEN \* execute raised: "except Exception: raise", or a
                \* BaseException passing through
                /\ runLog' = Append(runLog, entry)
                /\ pc' = "raised"
                /\ last' = Event("executed", key, outcome, retry, TRUE, migration.seq)
                /\ UNCHANGED << executed_migrations, store, pos, executed_count >>
           ELSE IF saved.raised # "none"
           THEN \* insert_one raised after executed_count += 1
                /\ runLog' = Append(runLog, entry)
                /\ executed_count' = count_run(executed_count)
                /\ pc' = "raised"
                /\ last' = Event("save_failed", key, outcome, retry, FALSE, migration.seq)
                /\ UNCHANGED << executed_migrations, store, pos >>
           ELSE /\ runLog' = Append(runLog, entry)
                /\ executed_count' = count_run(executed_count)
                /\ store' = saved.docs
                /\ executed_migrations' = executed_migrations \cup {key}
                /\ pos' = pos + 1
                /\ last' = Event("executed", key, outcome, retry, FALSE, migration.seq)
                /\ UNCHANGED pc
  /\ UNCHANGED << moduleOrder, failed_migrations, uniqueIndex, clickhouse,
                  result, repeat, prev >>
  /\ UNCHANGED others

\* "return executed_count"
Return ==
  /\ pc = "running"
  /\ pos > Len(ExecutionOrder)
  /\ result' = executed_count
  /\ pc' = "returned"
  /\ last' = Event("return", NoKey, NoOutcome, FALSE, FALSE, 0)
  /\ UNCHANGED << migrations, moduleOrder, executed_migrations,
                  failed_migrations, store, uniqueIndex, pos, clickhouse,
                  executed_count, runLog, repeat, prev >>
  /\ UNCHANGED others

Next ==
  \/ \E f \in MigrationFiles : _discover_migrations(f)
  \/ \E handle \in BOOLEAN : run_pending_migrations(handle)
  \/ \E outcome \in RunOutcomes : LoopBody(outcome)
  \/ Return

Spec == Init /\ [][Next]_vars

\* ------------------------------------------- a store with a failed record
\* The collection as an earlier process left it: the first migration of the
\* application failed, with another error than the one it fails with now.
EarlierFailure == StoredRecord(UserFile, FALSE, << "earlier" >>, EditedChecksum)

InitRetry ==
  /\ migrations = [m \in Modules |-> [v \in Versions |-> << >>]]
  /\ moduleOrder = << >>
  /\ executed_migrations = {}
  /\ failed_migrations = {}
  /\ store = << EarlierFailure >>
  /\ uniqueIndex \in BOOLEAN
  /\ pc = "idle"
  /\ pos = 1
  /\ clickhouse = FALSE
  /\ executed_count = 0
  /\ result = 0
  /\ runLog = << >>
  /\ last = Event("init", NoKey, NoOutcome, FALSE, FALSE, 0)
  /\ repeat = FALSE
  /\ prev = [err |-> FALSE, ran |-> FALSE]
  /\ SqlIdle
  /\ CmdIdle
  /\ DirIdle
  /\ TwoIdle
  /\ UserIdle

SpecRetry == InitRetry /\ [][Next]_vars

\* ----------------------------------------------- the rewriter on its own
\* One call of _transform_sql_for_cluster on a script under a configuration.
InitSql ==
  /\ ManagerIdle
  /\ settings \in Settings
  /\ sql \in Inputs
  /\ transformed_sql = << >>
  /\ sqlpc = "called"
  /\ CmdIdle
  /\ DirIdle
  /\ TwoIdle
  /\ UserIdle

TransformSql ==
  /\ sqlpc = "called"
  /\ transformed_sql' = _transform_sql_for_cluster(settings, sql)
  /\ sqlpc' = "returned"
  /\ UNCHANGED << mvars, settings, sql, cvars, dvars, pvars, uvars >>

NextSql == TransformSql

SpecSql == InitSql /\ [][NextSql]_vars

\* ---------------------------------- a columnar migration being executed
\* ClickhouseMigrationScript.execute of a migration whose run hands one
\* script to db.command.  The handle given to the manager is client 1, which
\* is also the client of the singleton.
InitCmd ==
  /\ ManagerIdle
  /\ settings \in Settings
  /\ sql \in CommandScripts
  /\ transformed_sql = << >>
  /\ sqlpc = "idle"
  /\ cmdpc = "execute"
  /\ run_db = "none"
  /\ statements = << >>
  /\ statement_no = 0
  /\ attempt = 0
  /\ retry_delay = 0
  /\ _original_client = 1
  /\ _instance = 1
  /\ clients = 1
  /\ closed = {}
  /\ sent = << >>
  /\ sleeps = << >>
  /\ reconnects = << >>
  /\ results = << >>
  /\ returned = [raised |-> "none", value |-> None]
  /\ DirIdle
  /\ TwoIdle
  /\ UserIdle

\* the migration whose execute is in progress: the one the loop of the manager
\* is at, the backfill migration when execute is called on its own
CurrentColumnar ==
  IF pos \in DOMAIN ExecutionOrder THEN ExecutionOrder[pos].migration
  ELSE BackfillScript

\* "finally: ... return migration" of execute, after run ended with outcome
ExecuteReturns(outcome) ==
  /\ cmdpc' = "returned"
  /\ returned' = clickhouse_execute(CurrentColumnar, BackfillFile.module,
                                    BackfillFile.version, outcome)

\* execute up to the call of run: the wrapper is built in cluster mode only
ExecuteRun ==
  /\ cmdpc = "execute"
  /\ run_db' = IF wraps_client(settings) THEN "wrapper" ELSE "client"
  /\ cmdpc' = "run"
  /\ UNCHANGED << mvars, svars, statements, statement_no, attempt, retry_delay,
                  _original_client, _instance, clients, closed, sent, sleeps,
                  reconnects, results, returned, dvars, pvars, uvars >>

\* db.command(sql) on the raw client: the script goes out once, as it is
ClientCommand(outcome) ==
  /\ cmdpc = "run"
  /\ run_db = "client"
  /\ sent' = Append(sent, Sent(0, 1, _original_client, outcome))
  /\ ExecuteReturns(outcome)
  /\ UNCHANGED << mvars, svars, run_db, statements, statement_no, attempt,
                  retry_delay, _original_client, _instance, clients, closed,
                  sleeps, reconnects, results, dvars, pvars, uvars >>

\* ClusterAwareAsyncClient.command up to the first attempt
command ==
  /\ cmdpc = "run"
  /\ run_db = "wrapper"
  /\ transformed_sql' = _transform_sql_for_cluster(settings, sql)
  /\ statements' = command_statements(transformed_sql')
  /\ IF statements' = << >>
     THEN /\ ExecuteReturns(Succeeded)
          /\ UNCHANGED << statement_no, attempt, retry_delay >>
     ELSE /\ statement_no' = 1
          /\ attempt' = 0
          /\ retry_delay' = initial_retry_delay
          /\ cmdpc' = "attempt"
          /\ UNCHANGED returned
  /\ UNCHANGED << mvars, settings, sql, sqlpc, run_db, _original_client,
                  _instance, clients, closed, sent, sleeps, reconnects,
                  results, dvars, pvars, uvars >>

\* force_reconnect: the singleton's client is closed, the singleton reset,
\* and a new client is connected or not; on success the wrapper takes the
\* new client from ClickhouseDatabase()
ForceReconnect(reconnect_success) ==
  /\ reconnects' = Append(reconnects,
                          Reconnected(statement_no, attempt + 1, reconnect_success))
  /\ closed' = IF _instance # 0 THEN closed \cup {_instance} ELSE closed
  /\ IF reconnect_success
     THEN /\ clients' = clients + 1
          /\ _instance' = clients + 1
          /\ _original_client' = clients + 1
     ELSE /\ _instance' = 0
          /\ UNCHANGED << clients, _original_client >>

\* one pass of "for attempt in range(max_retries)": the statement is sent,
\* and what follows the outcome up to the next send
Attempt(outcome, reconnect_success) ==
  /\ cmdpc = "attempt"
  /\ sent' = Append(sent, Sent(statement_no, attempt + 1, _original_client, outcome))
  /\ IF outcome.exc = "none"
     THEN /\ results' = Append(results, statement_no)
          /\ IF statement_no = Len(statements)
             THEN /\ ExecuteReturns(Succeeded)
                  /\ UNCHANGED << statement_no, attempt, retry_delay >>
             ELSE /\ statement_no' = statement_no + 1
                  /\ attempt' = 0
                  /\ retry_delay' = initial_retry_delay
                  /\ UNCHANGED << cmdpc, returned >>
          /\ UNCHANGED << _original_client, _instance, clients, closed,
                          sleeps, reconnects >>
     ELSE IF attempt < max_retries - 1 /\ is_connection_error(outcome)
     THEN /\ IF severe_connection_error(outcome)
             THEN ForceReconnect(reconnect_success)
             ELSE UNCHANGED << _original_client, _instance, clients, closed,
                               reconnects >>
          /\ sleeps' = Append(sleeps, Slept(statement_no, attempt + 1, retry_delay))
          /\ retry_delay' = backoff(retry_delay)
          /\ attempt' = attempt + 1
          /\ UNCHANGED << cmdpc, returned, statement_no, results >>
     ELSE /\ ExecuteReturns(outcome)
          /\ UNCHANGED << statement_no, attempt, retry_delay, _original_client,
                          _instance, clients, closed, sleeps, reconnects,
                          results >>
  /\ UNCHANGED << mvars, svars, run_db, statements, dvars, pvars, uvars >>

NextCmd ==
  \/ ExecuteRun
  \/ \E outcome \in CommandOutcomes : ClientCommand(outcome)
  \/ command
  \/ \E outcome \in CommandOutcomes, reconnect_success \in BOOLEAN :
       Attempt(outcome, reconnect_success)

SpecCmd == InitCmd /\ [][NextCmd]_vars

\* ------------------------------ a call over several columnar migrations
\* run_pending_migrations under way with a columnar handle, client 1, over a
\* bucket of two columnar migrations; the run of each hands the same script
\* to db.command.
CallSettings ==
  { s \in Settings : /\ s.CLICKHOUSE_CLUSTER_DSN_LIST # << >>
                      /\ s.CLICKHOUSE_CLUSTER_NAME \in {"", "prod"} }
CallOutcomes == { Succeeded, ConnectionBroken, SyntaxError }
CallScripts == CommandScriptsOf(1) \cup CommandScriptsOf(2)
Registered2(f, n) ==
  [name |-> f.name, order |-> f.order, database_type |-> f.database_type,
   version |-> f.version, seq |-> n]

InitCall ==
  /\ migrations =
       [m \in Modules |-> [v \in Versions |->
          IF m = BackfillFile.module /\ v = BackfillFile.version
          THEN << Registered2(BackfillFile, 1), Registered2(RollupFile, 2) >>
          ELSE << >>]]
  /\ moduleOrder = << BackfillFile.module >>
  /\ executed_migrations = {}
  /\ failed_migrations = {}
  /\ store = << >>
  /\ uniqueIndex = TRUE
  /\ pc = "running"
  /\ pos = 1
  /\ clickhouse = TRUE
  /\ executed_count = 0
  /\ result = 0
  /\ runLog = << >>
  /\ last = Event("load", NoKey, NoOutcome, FALSE, FALSE, 0)
  /\ repeat = FALSE
  /\ prev = [err |-> FALSE, ran |-> FALSE]
  /\ settings \in CallSettings
  /\ sql \in CallScripts
  /\ transformed_sql = << >>
  /\ sqlpc = "idle"
  /\ cmdpc = "execute"
  /\ run_db = "none"
  /\ statements = << >>
  /\ statement_no = 0
  /\ attempt = 0
  /\ retry_delay = 0
  /\ _original_client = 1
  /\ _instance = 1
  /\ clients = 1
  /\ closed = {}
  /\ sent = << >>
  /\ sleeps = << >>
  /\ reconnects = << >>
  /\ results = << >>
  /\ returned = [raised |-> "none", value |-> None]
  /\ DirIdle
  /\ TwoIdle
  /\ UserIdle

\* The loop of run_pending_migrations from the return of execute to the call
\* of the next execute, or to "return executed_count": the record is stored,
\* the key joins executed_migrations, and the next columnar migration is
\* executed with the handle the call was given.
AfterExecute ==
  /\ pc = "running"
  /\ cmdpc = "returned"
  /\ LET e == ExecutionOrder[pos]
         key == migration_key(e.module, e.version, e.migration.name)
         saved == save_record(store, uniqueIndex, is_retry(key, failed_migrations),
                              key, returned.value)
     IN /\ executed_count' = count_run(executed_count)
        /\ store' = saved.docs
        /\ executed_migrations' = executed_migrations \cup {key}
  /\ pos' = pos + 1
  /\ IF pos < Len(ExecutionOrder)
     THEN /\ cmdpc' = "execute"
          /\ _original_client' = 1
          /\ UNCHANGED << pc, result >>
     ELSE /\ cmdpc' = "idle"
          /\ pc' = "returned"
          /\ result' = executed_count'
          /\ UNCHANGED _original_client
  /\ run_db' = "none"
  /\ statements' = << >>
  /\ statement_no' = 0
  /\ attempt' = 0
  /\ retry_delay' = 0
  /\ results' = << >>
  /\ UNCHANGED << migrations, moduleOrder, failed_migrations, uniqueIndex,
                  clickhouse, runLog, last, repeat, prev, svars, _instance, clients,
                  closed, sent, sleeps, reconnects, returned, dvars, pvars, uvars >>

NextCall ==
  \/ ExecuteRun
  \/ \E outcome \in CallOutcomes : ClientCommand(outcome)
  \/ command
  \/ \E outcome \in CallOutcomes, reconnect_success \in BOOLEAN :
       Attempt(outcome, reconnect_success)
  \/ AfterExecute

SpecCall == InitCall /\ [][NextCall]_vars

\* ------------------------------------------ two processes in run_migrations
\* Two processes start at the same time and call run_migrations on one
\* database.  Both discovered the two migrations of the application.  The
\* manager variables hold the manager of the process that takes the next
\* step; peer holds the manager of the other process.
Manager ==
  [migrations |-> migrations, moduleOrder |-> moduleOrder,
   executed_migrations |-> executed_migrations,
   failed_migrations |-> failed_migrations, pc |-> pc, pos |-> pos,
   clickhouse |-> clickhouse, executed_count |-> executed_count,
   result |-> result, runLog |-> runLog, last |-> last, repeat |-> repeat,
   prev |-> prev]

GroupFile == CHOOSE f \in MigrationFiles : f.name = "create_user_group_collection"

\* the database as the processes find it: no collection yet, the collection
\* with its unique index, or a collection that was left without the index
Databases ==
  { [has_collection |-> FALSE, uniqueIndex |-> FALSE, store |-> << >>],
    [has_collection |-> TRUE, uniqueIndex |-> FALSE, store |-> << >>] }
  \cup { [has_collection |-> TRUE, uniqueIndex |-> TRUE, store |-> docs] :
           docs \in InitialStores }

InitTwo ==
  /\ migrations =
       [m \in Modules |-> [v \in Versions |->
          IF m = UserFile.module /\ v = UserFile.version
          THEN << Registered2(UserFile, 1) >>
          ELSE IF m = GroupFile.module /\ v = GroupFile.version
          THEN << Registered2(GroupFile, 1) >>
          ELSE << >>]]
  /\ moduleOrder = << UserFile.module >>
  /\ executed_migrations = {}
  /\ failed_migrations = {}
  /\ \E d \in Databases :
       /\ has_collection = d.has_collection
       /\ uniqueIndex = d.uniqueIndex
       /\ store = d.store
  /\ pc = "start"
  /\ pos = 1
  /\ clickhouse = FALSE
  /\ executed_count = 0
  /\ result = 0
  /\ runLog = << >>
  /\ last = Event("init", NoKey, NoOutcome, FALSE, FALSE, 0)
  /\ repeat = FALSE
  /\ prev = [err |-> FALSE, ran |-> FALSE]
  /\ peer = Manager
  /\ active = 1
  /\ SqlIdle
  /\ CmdIdle
  /\ DirIdle
  /\ UserIdle

\* the other process takes the next step
Switch ==
  /\ peer.pc \notin {"none", "returned", "raised"}
  /\ peer' = Manager
  /\ migrations' = peer.migrations
  /\ moduleOrder' = peer.moduleOrder
  /\ executed_migrations' = peer.executed_migrations
  /\ failed_migrations' = peer.failed_migrations
  /\ pc' = peer.pc
  /\ pos' = peer.pos
  /\ clickhouse' = peer.clickhouse
  /\ executed_count' = peer.executed_count
  /\ result' = peer.result
  /\ runLog' = peer.runLog
  /\ last' = peer.last
  /\ repeat' = peer.repeat
  /\ prev' = peer.prev
  /\ active' = 3 - active
  /\ UNCHANGED << store, uniqueIndex, has_collection, svars, cvars, dvars, uvars >>

\* "collection_names = await mongodb.list_collection_names()"
list_collection_names ==
  /\ pc = "start"
  /\ pc' = IF has_collection THEN "idle" ELSE "absent"
  /\ UNCHANGED << migrations, moduleOrder, executed_migrations,
                  failed_migrations, store, uniqueIndex, pos, clickhouse,
                  executed_count, result, runLog, last, repeat, prev >>
  /\ UNCHANGED others

\* "await mongodb.create_collection(...)": CollectionInvalid when it exists
create_collection ==
  /\ pc = "absent"
  /\ IF has_collection
     THEN pc' = "raised" /\ UNCHANGED has_collection
     ELSE pc' = "created" /\ has_collection' = TRUE
  /\ UNCHANGED << migrations, moduleOrder, executed_migrations,
                  failed_migrations, store, uniqueIndex, pos, clickhouse,
                  executed_count, result, runLog, last, repeat, prev >>
  /\ UNCHANGED << svars, cvars, dvars, peer, active, uvars >>

\* "await mongodb.migrations.create_index([...], unique=True)"
create_index ==
  /\ pc = "created"
  /\ uniqueIndex' = TRUE
  /\ pc' = "idle"
  /\ UNCHANGED << migrations, moduleOrder, executed_migrations,
                  failed_migrations, store, pos, clickhouse,
                  executed_count, result, runLog, last, repeat, prev >>
  /\ UNCHANGED others

\* "count = await migration_manager.run_pending_migrations(mongodb, clickhouse)"
run_migrations == pc = "idle" /\ run_pending_migrations(FALSE)

NextTwo ==
  \/ Switch
  \/ list_collection_names
  \/ create_collection
  \/ create_index
  \/ run_migrations
  \/ \E outcome \in RunOutcomes : LoopBody(outcome)
  \/ Return

SpecTwo == InitTwo /\ [][NextTwo]_vars

\* ------------------------------------------ discovery of version directories
\* One entry of os.listdir(migrations_path) in discover_app_migrations
\* ("stufio") or discover_module_migrations (a module): its name, whether
\* it is a directory, and whether it holds a migration file.
InitDir ==
  /\ ManagerIdle
  /\ SqlIdle
  /\ CmdIdle
  /\ TwoIdle
  /\ UserIdle
  /\ dirpc = "listed"
  /\ scan_module \in Modules
  /\ version_dir \in DirNames
  /\ isdir \in BOOLEAN
  /\ scanned = << >>
  /\ registry = {}

\* the body of "for version_dir in os.listdir(...)": the entry is skipped,
\* or _discover_migrations scans it and registers the script of its file
\* under the version that the pattern captured
VersionDir(has_file) ==
  /\ dirpc = "listed"
  /\ dirpc' = "done"
  /\ IF ~isdir \/ IsSpecialDir(version_dir) \/ ~VERSION_PATTERN(version_dir).matched
     THEN UNCHANGED << scanned, registry >>
     ELSE /\ scanned' = Append(scanned, version_dir)
          /\ registry' =
               IF has_file
               THEN registry \cup { [module |-> scan_module,
                                     version |-> VERSION_PATTERN(version_dir).version,
                                     version_dir |-> version_dir] }
               ELSE registry
  /\ UNCHANGED << mvars, svars, cvars, scan_module, version_dir, isdir, pvars, uvars >>

NextDir == \E has_file \in BOOLEAN : VersionDir(has_file)

SpecDir == InitDir /\ [][NextDir]_vars

\* ------------------------------------------------------------- crud.user
\* The users of crud.user: CRUDUser.create, update and authenticate over
\* the collection of the model User.  A document carries the fields that
\* authentication reads or writes; its id is its position in the
\* collection.
MaxUsers == 2
Emails == {"a@x.io", "b@x.io"}
Passwords == {"password1", "password2"}
\* Python's None where a password or an email is optional
NoValue == "None"

\* stufio.core.security: a hash is not the password, and a password is
\* verified against the hash made of it; the empty string is the hash of
\* no password
get_password_hash(password) == "$hash$" \o password
verify_password(plain_password, hashed_password) ==
  hashed_password = get_password_hash(plain_password)

\* a pydantic model built from keyword arguments: the declared fields are
\* taken from the arguments or from their defaults, the other arguments
\* are ignored
Build(defaults, data) ==
  [f \in DOMAIN defaults |-> IF f \in DOMAIN data THEN data[f] ELSE defaults[f]]
\* dict(a, **b)
Merge(a, b) ==
  [f \in DOMAIN a \cup DOMAIN b |-> IF f \in DOMAIN b THEN b[f] ELSE a[f]]

\* schemas.UserCreate: email, email_validated and password (the fields
\* is_active, is_superuser, full_name and user_groups play no part)
UserCreate(data) ==
  Build([email |-> NoValue, email_validated |-> FALSE, password |-> NoValue], data)
\* models.User, after validate_types: a hashed_password of None becomes ""
User(data) ==
  LET checked == IF "hashed_password" \in DOMAIN data /\ data.hashed_password = NoValue
                 THEN Merge(data, [hashed_password |-> ""])
                 ELSE data
  IN  Build([email |-> NoValue, hashed_password |-> "", email_validated |-> FALSE],
            checked)

\* engine.find_one(User, User.email == email): the first match, if any
get_by_email(email) ==
  LET found == { i \in DOMAIN users : users[i].email = email }
  IN  IF found = {} THEN None
      ELSE << CHOOSE i \in found : \A j \in found : i <= j >>

\* engine.save raises when the unique index finds the email on another
\* document
DuplicateEmail(id, email) ==
  email_index /\ \E i \in DOMAIN users : i # id /\ users[i].email = email

\* CRUDUser.create, down to CRUDMongo.create
user_create(obj_in) ==
  LET user_data == Merge(obj_in,
                     [email |-> obj_in.email,
                      hashed_password |->
                        IF obj_in.password # NoValue
                        THEN get_password_hash(obj_in.password) ELSE NoValue])
      user_create_in == UserCreate(user_data)
      \* CRUDMongo.create: jsonable_encoder, then self.model(**obj_in_data)
      db_obj == User(user_create_in)
  IN  db_obj

create(email, password) ==
  /\ userpc # "idle"
  /\ Len(users) < MaxUsers
  /\ LET db_obj == user_create(UserCreate([email |-> email, password |-> password]))
     IN  IF DuplicateEmail(0, db_obj.email)
         THEN /\ userpc' = "raised"
              /\ UNCHANGED << users, password_set >>
         ELSE /\ userpc' = "created"
              /\ users' = Append(users, db_obj)
              /\ password_set' = Append(password_set, password)
  /\ UNCHANGED << email_index, authenticated >>
  /\ UNCHANGED << mvars, svars, cvars, dvars, pvars >>

\* CRUDUser.update, down to CRUDMongo.update: the fields of the document
\* that the update names are set, the others are kept
user_update(db_obj, update_data) ==
  LET hashed == IF "password" \in DOMAIN update_data
                   /\ update_data.password # NoValue
                THEN Merge([f \in DOMAIN update_data \ {"password"} |-> update_data[f]],
                           [hashed_password |-> get_password_hash(update_data.password)])
                ELSE update_data
      update_dict == IF "email" \in DOMAIN hashed /\ hashed.email # NoValue
                        /\ db_obj.email # hashed.email
                     THEN Merge(hashed, [email_validated |-> FALSE])
                     ELSE hashed
  IN  [f \in DOMAIN db_obj |->
         IF f \in DOMAIN update_dict THEN update_dict[f] ELSE db_obj[f]]

\* the updates a caller can build: UserUpdate with the fields it set
\* (model_dump(exclude_unset=True))
Updates ==
  { [password |-> p] : p \in Passwords }
  \cup { [email |-> e] : e \in Emails }
  \cup { [email |-> e, password |-> p] : e \in Emails, p \in Passwords }
  \cup { [password |-> NoValue] }

update(id, update_data) ==
  /\ userpc # "idle"
  /\ id \in DOMAIN users
  /\ LET db_obj == user_update(users[id], update_data)
     IN  IF DuplicateEmail(id, db_obj.email)
         THEN /\ userpc' = "raised"
              /\ UNCHANGED << users, password_set >>
         ELSE /\ userpc' = "updated"
              /\ users' = [users EXCEPT ![id] = db_obj]
              /\ password_set' =
                   IF "password" \in DOMAIN update_data
                      /\ update_data.password # NoValue
                   THEN [password_set EXCEPT ![id] = update_data.password]
                   ELSE password_set
  /\ UNCHANGED << email_index, authenticated >>
  /\ UNCHANGED << mvars, svars, cvars, dvars, pvars >>

authenticate(email, password) ==
  /\ userpc # "idle"
  /\ userpc' = "authenticated"
  /\ LET user == get_by_email(email)
     IN  authenticated' =
           << [email |-> email, password |-> password,
               returned |->
                 IF user = None THEN None
                 ELSE IF ~verify_password(password, users[user[1]].hashed_password)
                 THEN None
                 ELSE << users[user[1]] >>,
               id |-> IF user = None THEN 0 ELSE user[1]] >>
  /\ UNCHANGED << users, email_index, password_set >>
  /\ UNCHANGED << mvars, svars, cvars, dvars, pvars >>

\* an empty collection of users, with or without the unique index
InitUser ==
  /\ ManagerIdle
  /\ SqlIdle
  /\ CmdIdle
  /\ DirIdle
  /\ TwoIdle
  /\ userpc = "ready"
  /\ users = << >>
  /\ email_index \in BOOLEAN
  /\ password_set = << >>
  /\ authenticated = << >>

NextUser ==
  \/ \E email \in Emails, password \in Passwords \cup {NoValue} : create(email, password)
  \/ \E id \in 1..MaxUsers, update_data \in Updates : update(id, update_data)
  \/ \E email \in Emails, password \in Passwords : authenticate(email, password)

SpecUser == InitUser /\ [][NextUser]_vars

\* ------------------------------------------------------------ properties
\* The pass of the loop body that is about to run, and its key.
InLoop == pc = "running" /\ pos <= Len(ExecutionOrder)
CurrentKey ==
  migration_key(ExecutionOrder[pos].module, ExecutionOrder[pos].version,
                ExecutionOrder[pos].migration.name)
\* A step that invoked a run: the log grew by one entry.
RunInvoked == Len(runLog') = Len(runLog) + 1
LogKey(en) == migration_key(en.module, en.version, en.migration.name)
HasRecord(docs, key, success, error) ==
  \E i \in DOMAIN docs :
    KeyOf(docs[i]) = key /\ docs[i].success = success /\ docs[i].error = error
ModuleIndex(m) == CHOOSE i \in DOMAIN moduleOrder : moduleOrder[i] = m

\* C1: fail-fast. A run that raised is the last run the call invokes, and
\* the call ends by raising to its caller instead of going on or returning.
C1_FailFast ==
  \A i \in DOMAIN runLog :
    runLog[i].outcome.exc # "none" => (i = Len(runLog) /\ pc = "raised")

\* C2: execute propagates the error of run to its caller exactly when run
\* raised; it returns normally only when run returned normally.
C2_ExecutePropagates ==
  last.op = "executed" => (last.propagated <=> last.outcome.exc # "none")

\* C3 (original): a call that repeats the previous call (same registry, same
\* handles) invokes no run and returns 0.
C3_SecondCallRunsNothing ==
  repeat => (runLog = << >> /\ (pc = "returned" => result = 0))

\* C3 (amended): a call that repeats a previous call which returned normally
\* and in which no run raised an error invokes no run and returns 0.
C3_SecondCallAfterCleanCall ==
  (repeat /\ ~prev.err) => (runLog = << >> /\ (pc = "returned" => result = 0))

WitC3 ==
  /\ repeat /\ ~prev.err /\ prev.ran
  /\ pc = "returned" /\ result = 0
  /\ Len(ExecutionOrder) = MaxScripts

\* C4: every run invoked by run_pending_migrations leaves a record for its
\* key: success=false with the stringified error when run raised an error,
\* success=true when run returned normally; the record is inserted when the
\* key had none and replaces the stored one on a retry.
C4_AttemptRecorded ==
  [][ RunInvoked =>
        LET en == runLog'[Len(runLog')]
            key == LogKey(en)
        IN /\ en.outcome.exc = "Exception" =>
                HasRecord(store', key, FALSE, << Str(en.outcome) >>)
           /\ en.outcome.exc = "none" => HasRecord(store', key, TRUE, None)
           /\ Len(store') = Len(store) + (IF Count(store, key) = 0 THEN 1 ELSE 0)
    ]_vars

WitC4 ==
  /\ last.op = "executed" /\ last.retry /\ last.outcome.exc = "Exception"
  /\ HasRecord(store, last.key, FALSE, << "boom" >>)

\* C5: a successful run of a migration whose key has a stored record with
\* success=false turns that record into success=true and inserts nothing:
\* one record for the key before and after.
C5_RetryUpdatesInPlace ==
  [][ ( /\ RunInvoked
        /\ runLog'[Len(runLog')].outcome.exc = "none"
        /\ LogKey(runLog'[Len(runLog')]) \in FailedKeys(store) )
      => LET key == LogKey(runLog'[Len(runLog')])
         IN /\ Count(store, key) = 1
            /\ Count(store', key) = 1
            /\ Len(store') = Len(store)
            /\ \A i \in Matching(store', key) : store'[i].success
    ]_vars

WitC5 ==
  /\ last.op = "executed" /\ last.retry /\ last.outcome.exc = "none"
  /\ HasRecord(store, last.key, TRUE, None)
  /\ Len(store) = 2

\* C6: a migration whose key has a stored record with success=true is
\* passed over: no run, no count, the store unchanged, the loop goes on.
C6_SucceededSkipped ==
  [][ (InLoop /\ CurrentKey \in SucceededKeys(store))
      => /\ runLog' = runLog
         /\ executed_count' = executed_count
         /\ store' = store
         /\ pos' = pos + 1
         /\ pc' = "running"
    ]_vars

WitC6 ==
  /\ last.op = "skip"
  /\ \E i \in DOMAIN store :
       /\ KeyOf(store[i]) = last.key
       /\ store[i].success
       /\ store[i].checksum = EditedChecksum
       /\ store[i].checksum # get_checksum(store[i])

\* C7: of two scripts of one (module, version) that both ran in a call, the
\* one with the lower order ran first.
C7_OrderInsideBucket ==
  \A i, j \in DOMAIN runLog :
    ( /\ runLog[i].module = runLog[j].module
      /\ runLog[i].version = runLog[j].version
      /\ runLog[i].migration.order < runLog[j].migration.order ) => i < j

WitC7 ==
  \E i, j \in DOMAIN runLog :
    /\ runLog[i].module = runLog[j].module
    /\ runLog[i].version = runLog[j].version
    /\ runLog[i].migration.order < runLog[j].migration.order
    /\ runLog[i].migration.seq > runLog[j].migration.seq

\* C8 (original): over all modules together the runs of a call are in
\* ascending (version, order); no later version runs before an earlier one.
C8_TotalOrder ==
  \A i, j \in DOMAIN runLog :
    i < j => \/ runLog[i].version < runLog[j].version
             \/ /\ runLog[i].version = runLog[j].version
                /\ runLog[i].migration.order <= runLog[j].migration.order

\* C8 (amended): the modules run one after another in the order of their
\* registration; inside a module the runs are in ascending version, then
\* ascending order, then discovery order.
C8_OrderInsideModule ==
  \A i, j \in DOMAIN runLog :
    i < j =>
      /\ ModuleIndex(runLog[i].module) <= ModuleIndex(runLog[j].module)
      /\ runLog[i].module = runLog[j].module =>
           \/ runLog[i].version < runLog[j].version
           \/ /\ runLog[i].version = runLog[j].version
              /\ runLog[i].migration.order < runLog[j].migration.order
           \/ /\ runLog[i].version = runLog[j].version
              /\ runLog[i].migration.order = runLog[j].migration.order
              /\ runLog[i].migration.seq < runLog[j].migration.seq

\* A later version of the first module ran before an earlier version of the
\* second module.
WitC8 ==
  /\ Len(runLog) = 2
  /\ ModuleIndex(runLog[1].module) < ModuleIndex(runLog[2].module)
  /\ runLog[1].version > runLog[2].version

\* C9: the collection never holds two records with the same
\* (module, version, name).
C9_RecordUnique ==
  \A i, j \in DOMAIN store : KeyOf(store[i]) = KeyOf(store[j]) => i = j

WitC9 ==
  /\ last.op = "executed" /\ last.retry
  /\ Len(store) = 2
  /\ ~uniqueIndex

\* C10: without a columnar handle a pending columnar migration is passed
\* over: no run, no record written, no count, no raise, and the loop goes
\* on to the next migration.
C10_NoHandleSkips ==
  [][ ( /\ InLoop
        /\ ExecutionOrder[pos].migration.database_type = "clickhouse"
        /\ ~clickhouse
        /\ CurrentKey \notin executed_migrations )
      => /\ runLog' = runLog
         /\ store' = store
         /\ executed_count' = executed_count
         /\ pc' = "running"
         /\ pos' = pos + 1
    ]_vars

WitC10 ==
  /\ last.op = "executed"
  /\ ~clickhouse
  /\ pos = 3
  /\ ExecutionOrder[1].migration.database_type = "clickhouse"
  /\ Len(runLog) = 1
  /\ runLog[1].migration = ExecutionOrder[2].migration
  /\ Count(store, migration_key(ExecutionOrder[1].module, ExecutionOrder[1].version,
                                ExecutionOrder[1].migration.name)) = 0

\* C11: a call that returns normally returns the number of runs it invoked;
\* migrations passed over (already succeeded, or columnar without handle)
\* are not counted, and the value is 0 when no run was invoked.
C11_ReturnedCount ==
  pc = "returned" => result = Len(runLog)

\* A call over two migrations returned 1: one ran, the other was passed over.
WitC11 ==
  /\ pc = "returned"
  /\ Len(ExecutionOrder) = 2
  /\ result = 1
  /\ Len(runLog) = 1

\* C23: when a migration whose key has a stored record with success=false
\* runs again and its run raises an error again, that record is replaced by
\* the record of the latest attempt, with success=false and the new error;
\* no record is added, and the key stays in the failed set that the next
\* call loads.
C23_RetryFailsAgain ==
  [][ ( /\ RunInvoked
        /\ runLog'[Len(runLog')].outcome.exc = "Exception"
        /\ LogKey(runLog'[Len(runLog')]) \in FailedKeys(store) )
      => LET en == runLog'[Len(runLog')]
             key == LogKey(en)
         IN /\ Len(store') = Len(store)
            /\ Count(store', key) = 1
            /\ \A i \in Matching(store', key) :
                 /\ ~store'[i].success
                 /\ store'[i].error = << Str(en.outcome) >>
                 /\ store'[i].checksum = get_checksum(en.migration)
            /\ key \in FailedKeys(store')
            /\ key \notin SucceededKeys(store')
    ]_vars

\* The failed migration was retried in two calls in a row and failed both
\* times: the one record of its key describes the latest failure.
WitC23 ==
  /\ last.op = "executed" /\ last.retry /\ last.outcome.exc = "Exception"
  /\ prev.err
  /\ last.key \in failed_migrations
  /\ Len(store) = 1
  /\ KeyOf(store[1]) = last.key
  /\ ~store[1].success /\ store[1].error = << "boom" >>

\* C26: a run that ended by raising, an error or a cancellation, leaves no
\* record with success=true for its key, and the call ends by raising.
C26_SuccessImpliesCompleted ==
  [][ (RunInvoked /\ runLog'[Len(runLog')].outcome.exc # "none")
      => /\ \A i \in Matching(store', LogKey(runLog'[Len(runLog')])) :
              ~store'[i].success
         /\ pc' = "raised"
    ]_vars

\* C27: within one call no key is run twice, also when the registry holds
\* several script instances with the same key.
C27_OneRunPerKey ==
  \A i, j \in DOMAIN runLog : LogKey(runLog[i]) = LogKey(runLog[j]) => i = j

\* The registry holds two instances of one script, discovered twice; the call
\* ran the first, passed over the second and returned 1.
WitC27 ==
  /\ pc = "returned"
  /\ Len(ExecutionOrder) = 2
  /\ LogKey(ExecutionOrder[1]) = LogKey(ExecutionOrder[2])
  /\ ExecutionOrder[1].migration.seq # ExecutionOrder[2].migration.seq
  /\ Len(runLog) = 1
  /\ result = 1
  /\ last.op = "return"

\* The unique index is in force: it exists, or the collection does not exist
\* yet, or the process that created the collection is about to create it.
IndexInForce ==
  \/ uniqueIndex
  \/ ~has_collection
  \/ pc = "created"
  \/ peer.pc = "created"

\* C25: two processes run run_pending_migrations at the same time on one
\* store that has the unique index: whatever the interleaving, the store
\* holds at most one record for a key.
C25_OneRecordPerKey ==
  IndexInForce =>
    \A i, j \in DOMAIN store : KeyOf(store[i]) = KeyOf(store[j]) => i = j

\* Both processes loaded an empty collection and both ran the first
\* migration; the insert of the second was rejected, one record is stored.
WitC25 ==
  /\ uniqueIndex
  /\ peer.pc \in {"running", "returned"}
  /\ peer.runLog # << >>
  /\ runLog # << >>
  /\ LogKey(runLog[1]) = LogKey(peer.runLog[1])
  /\ pc = "raised" /\ last.op = "save_failed"
  /\ Count(store, last.key) = 1

SqlReturned == sqlpc = "returned"
ClusterEnabled == _is_cluster_enabled(settings)

\* what the statement declares, read off the statement as it was written
DeclaredTable == create_table_pattern(sql)
DeclaredEngine == engine_pattern(sql)
DeclaresPlainMergeTree ==
  /\ DeclaredEngine.matched
  /\ DeclaredEngine.engine_name \in MergeTreeEngines \ ReplicatedEngines
HasOnCluster(text) == contains(upper(text), << "ON", " ", "CLUSTER" >>)

\* "<Replicated counterpart>('/clickhouse/tables/{shard}/<database>.<table>',
\* '{replica}'" with the database and the table of the statement
ReplicatedEngineHead ==
  << "Replicated" \o DeclaredEngine.engine_name, "(" >>
    \o zookeeper_path(DeclaredTable.db_name, DeclaredTable.table_name)
    \o << ",", " ", "'", "{replica}", "'" >>

\* C16: with cluster mode enabled every CREATE TABLE statement that declares
\* a merge-tree engine that is not a Replicated variant comes back with the
\* Replicated counterpart as its engine and the coordination path and the
\* replica placeholder as the first two parameters; with cluster mode
\* disabled the input comes back identical.
C16_EngineRewrite ==
  SqlReturned =>
    /\ (ClusterEnabled /\ sql \in CreateTableStatements /\ DeclaresPlainMergeTree)
         => /\ contains(transformed_sql, ReplicatedEngineHead)
            /\ \A i \in DOMAIN transformed_sql :
                 transformed_sql[i] # DeclaredEngine.engine_name
    /\ ~ClusterEnabled => transformed_sql = sql

\* C17: a statement that starts with SELECT, INSERT, UPDATE, DELETE or WITH
\* comes back unchanged, whether cluster mode is enabled or not.
C17_DmlPassthrough ==
  (SqlReturned /\ sql \in DmlStatements) => transformed_sql = sql

\* C18 as stated: with cluster mode enabled every DDL statement that
\* already contains ON CLUSTER comes back without any modification.
C18_OnClusterUntouched ==
  (SqlReturned /\ ClusterEnabled /\ sql \in DdlStatements /\ HasOnCluster(sql))
    => transformed_sql = sql

\* C18: with cluster mode enabled a DDL statement that already contains
\* ON CLUSTER comes back unmodified unless it is a CREATE TABLE statement
\* declaring a merge-tree engine that is not a Replicated variant; such a
\* statement gets no second ON CLUSTER clause and keeps everything before
\* its ENGINE clause, and only its ENGINE clause may be rewritten.
OnClusterAt(text) ==
  { i \in DOMAIN text : startswith(SubSeq(upper(text), i, Len(text)),
                                   << "ON", " ", "CLUSTER" >>) }
C18_OnClusterKept ==
  (SqlReturned /\ ClusterEnabled /\ sql \in DdlStatements /\ HasOnCluster(sql))
    => IF sql \in CreateTableStatements /\ DeclaresPlainMergeTree
       THEN /\ OnClusterAt(transformed_sql) = OnClusterAt(sql)
            /\ SubSeq(transformed_sql, 1, DeclaredEngine.start - 1)
                 = SubSeq(sql, 1, DeclaredEngine.start - 1)
       ELSE transformed_sql = sql
WitC18 ==
  /\ SqlReturned
  /\ ClusterEnabled
  /\ sql \in CreateTableStatements
  /\ HasOnCluster(sql)
  /\ DeclaresPlainMergeTree
  /\ transformed_sql # sql
  /\ contains(transformed_sql, ReplicatedEngineHead)

\* the object name of a statement: the first name written in it, as long
\* as it can be
NamesAt(text, i) ==
  { n \in TableNames : startswith(SubSeq(text, i, Len(text)), n) }
ObjectNameEnd(text) ==
  LET starts == { i \in DOMAIN text : NamesAt(text, i) # {} }
      first == CHOOSE i \in starts : \A j \in starts : i <= j
      name == CHOOSE n \in NamesAt(text, first) :
                \A m \in NamesAt(text, first) : Len(m) <= Len(n)
  IN first + Len(name) - 1

\* C19: with cluster mode enabled every CREATE VIEW, CREATE MATERIALIZED
\* VIEW, DROP TABLE, DROP VIEW and ALTER TABLE statement without ON CLUSTER
\* comes back with ON CLUSTER '<cluster name>' right after the object name
\* and the rest of the statement verbatim after it.
C19_ClauseAfterName ==
  (/\ SqlReturned
   /\ ClusterEnabled
   /\ sql \in CreateViewStatements \cup DropStatements \cup AlterStatements
   /\ ~HasOnCluster(sql))
    => transformed_sql =
         SubSeq(sql, 1, ObjectNameEnd(sql))
           \o OnClusterClause(settings.CLICKHOUSE_CLUSTER_NAME)
           \o SubSeq(sql, ObjectNameEnd(sql) + 1, Len(sql))

\* C30: with cluster mode enabled the rewriter is idempotent: rewriting a
\* rewritten script changes nothing, so the statements that the wrapper
\* splits off a script rewritten twice are those of the script rewritten once.
C30_RewriterIdempotent ==
  (SqlReturned /\ ClusterEnabled) =>
    /\ _transform_sql_for_cluster(settings, transformed_sql) = transformed_sql
    /\ command_statements(_transform_sql_for_cluster(settings, transformed_sql))
         = command_statements(transformed_sql)

\* A script of two statements came back rewritten: its table got a replicated
\* engine and the cluster clause, and a second pass leaves it as it is.
WitC30 ==
  /\ SqlReturned /\ ClusterEnabled
  /\ Len(_split_sql_statements(sql)) = 2
  /\ transformed_sql # sql
  /\ contains(transformed_sql, << "ReplicatedMergeTree" >>)
  /\ ~contains(sql, << "ReplicatedMergeTree" >>)
  /\ HasOnCluster(transformed_sql) /\ ~HasOnCluster(sql)
  /\ _transform_sql_for_cluster(settings, transformed_sql) = transformed_sql

\* ------------------------------------------------ properties of the wrapper
CmdReturned == cmdpc = "returned"
\* the outcomes that are fingerprinted transient-connection errors, and
\* the one among them that the code calls severe
Fingerprinted == { ConnectionBroken, ConnectionReset }
Severe == { ConnectionBroken }

SendsOf(no) == { i \in DOMAIN sent : sent[i].statement = no }
FailedSendsOf(no) == { i \in SendsOf(no) : sent[i].outcome \in Fingerprinted }
SleepsOf(no) == { i \in DOMAIN sleeps : sleeps[i].statement = no }
SleptAfter(e) ==
  \E i \in DOMAIN sleeps :
    sleeps[i].statement = e.statement /\ sleeps[i].attempt = e.attempt
ReconnectsAfter(e) ==
  { i \in DOMAIN reconnects :
      reconnects[i].statement = e.statement /\ reconnects[i].attempt = e.attempt }
\* the error that execute caught from run
CaughtError == returned.value.error

\* C12: a statement every attempt of which raises a fingerprinted error is
\* sent exactly 3 times, with a sleep of 2 seconds after the first attempt
\* and of 4 seconds after the second and none after the third, and then the
\* error propagates; attempts and delays start again with each statement.
C12_RetryCeiling ==
  run_db = "wrapper" =>
    /\ \A i \in DOMAIN sleeps :
         sleeps[i].delay = IF sleeps[i].attempt = 1 THEN 2 ELSE 4
    /\ \A no \in 1 .. Len(statements) :
         /\ { sent[i].attempt : i \in SendsOf(no) } = 1 .. Cardinality(SendsOf(no))
         /\ { sleeps[i].attempt : i \in SleepsOf(no) } = 1 .. Cardinality(SleepsOf(no))
         /\ (SendsOf(no) # {} /\ FailedSendsOf(no) = SendsOf(no)) =>
              IF Cardinality(SendsOf(no)) = 3
              THEN /\ CmdReturned
                   /\ Cardinality(SleepsOf(no)) = 2
                   /\ CaughtError = << Str(sent[Len(sent)].outcome) >>
              ELSE /\ cmdpc = "attempt"
                   /\ statement_no = no
                   /\ Cardinality(SleepsOf(no)) = Cardinality(SendsOf(no))
WitC12 ==
  /\ CmdReturned
  /\ Len(statements) = 2
  /\ Cardinality(SendsOf(1)) = 2
  /\ Cardinality(SendsOf(2)) = 3
  /\ FailedSendsOf(2) = SendsOf(2)
  /\ sleeps = << Slept(1, 1, 2), Slept(2, 1, 2), Slept(2, 2, 4) >>
  /\ ~returned.value.success

\* C13: an error that matches no fingerprint propagates after the attempt
\* that raised it: no sleep and no reconnection follow it, and nothing is
\* sent after it, neither the same statement nor a later one.
C13_NonRetryable ==
  \A i \in DOMAIN sent :
    (run_db = "wrapper" /\ sent[i].outcome = SyntaxError) =>
      /\ i = Len(sent)
      /\ CmdReturned
      /\ CaughtError = << Str(SyntaxError) >>
      /\ ~SleptAfter(sent[i])
      /\ ReconnectsAfter(sent[i]) = {}
WitC13 ==
  /\ CmdReturned
  /\ run_db = "wrapper"
  /\ Len(statements) = 2
  /\ Len(sent) = 2
  /\ sent[1].outcome = ConnectionReset
  /\ sent[2].outcome = SyntaxError
  /\ sent[2].statement = 1
  /\ sent[2].attempt = 2
  /\ Len(sleeps) = 1

\* C14 as stated: after every fingerprinted error on attempt 1 or 2 the
\* forced reconnect is invoked before the next attempt, and after a
\* successful reconnect the next attempt goes to the new client.
C14_ReconnectBeforeRetry ==
  \A i \in DOMAIN sent :
    (/\ run_db = "wrapper"
     /\ sent[i].outcome \in Fingerprinted
     /\ sent[i].attempt \in {1, 2}) =>
      /\ ReconnectsAfter(sent[i]) # {}
      /\ \A r \in ReconnectsAfter(sent[i]) :
           (reconnects[r].success /\ i < Len(sent)) =>
             /\ sent[i + 1].client \notin { sent[j].client : j \in 1 .. i }
             /\ ~sent[i + 1].on_closed

\* C14: the forced reconnect is invoked, once, after an error on attempt 1
\* or 2 whose text contains "Connection broken" or "IncompleteRead", and
\* after a successful reconnect the next attempt goes to the new client;
\* after a failed reconnect and after any other fingerprinted error the
\* next attempt goes to the client of the attempt before.
NextOnNewClient(i) ==
  i < Len(sent) =>
    /\ sent[i + 1].client \notin { sent[j].client : j \in 1 .. i }
    /\ ~sent[i + 1].on_closed
NextOnSameClient(i) ==
  i < Len(sent) => sent[i + 1].client = sent[i].client
C14_ReconnectWhenSevere ==
  \A i \in DOMAIN sent :
    (/\ run_db = "wrapper"
     /\ sent[i].outcome \in Fingerprinted
     /\ sent[i].attempt \in {1, 2}) =>
      (IF sent[i].outcome \in Severe
       THEN /\ Cardinality(ReconnectsAfter(sent[i])) = 1
            /\ \A r \in ReconnectsAfter(sent[i]) :
                 (IF reconnects[r].success
                  THEN NextOnNewClient(i) ELSE NextOnSameClient(i))
       ELSE /\ ReconnectsAfter(sent[i]) = {}
            /\ NextOnSameClient(i))
WitC14 ==
  /\ run_db = "wrapper"
  /\ Len(sent) = 3
  /\ sent[1].outcome = ConnectionReset
  /\ sent[2].outcome = ConnectionBroken
  /\ sent[2].client = 1
  /\ sent[3].client = 2
  /\ sent[3].statement = 1
  /\ Len(reconnects) = 1
  /\ reconnects[1].statement = 1 /\ reconnects[1].attempt = 2
  /\ reconnects[1].success

\* every statement sent failed with a fingerprinted error on at most two
\* attempts in a row and then succeeded, or succeeded at once
FailuresContained ==
  /\ \A i \in DOMAIN sent : sent[i].outcome \in Fingerprinted \cup {Succeeded}
  /\ \A no \in 0 .. Len(statements) : Cardinality(FailedSendsOf(no)) <= 2

RewrittenStatements ==
  SelectSeq(Stripped(split(_transform_sql_for_cluster(settings, sql))), NonEmpty)
C22_StatementSequencing ==
  run_db = "wrapper" =>
    /\ \A i \in DOMAIN sent :
         /\ sent[i].statement \in DOMAIN RewrittenStatements
         /\ sent[i].text = RewrittenStatements[sent[i].statement]
         /\ i = 1 => sent[i].statement = 1
         /\ i > 1 =>
              IF sent[i - 1].outcome = Succeeded
              THEN sent[i].statement = sent[i - 1].statement + 1
              ELSE sent[i].statement = sent[i - 1].statement
    /\ results = [i \in 1 .. Len(results) |-> i]
    /\ (CmdReturned /\ returned.value.success) =>
         /\ Len(results) = Len(RewrittenStatements)
         /\ command_result(results) =
              IF RewrittenStatements = << >> THEN None
              ELSE << Len(RewrittenStatements) >>

\* A script of two statements returned: the first statement failed once and
\* was sent again, the second was sent once, after the first had succeeded.
WitC22 ==
  /\ CmdReturned /\ run_db = "wrapper" /\ returned.value.success
  /\ Len(RewrittenStatements) = 2
  /\ Len(sent) = 3
  /\ sent[1].statement = 1 /\ sent[1].outcome = ConnectionReset
  /\ sent[2].statement = 1 /\ sent[2].outcome = Succeeded
  /\ sent[3].statement = 2 /\ sent[3].outcome = Succeeded
  /\ command_result(results) = << 2 >>

\* The statements of a script when only the semicolons outside single-quoted
\* literals separate them.
RECURSIVE SplitOutsideLiterals(_, _, _)
SplitOutsideLiterals(text, quoted, piece) ==
  IF text = << >> THEN << piece >>
  ELSE IF Head(text) = "'"
       THEN SplitOutsideLiterals(Tail(text), ~quoted, Append(piece, "'"))
  ELSE IF Head(text) = ";" /\ ~quoted
       THEN << piece >> \o SplitOutsideLiterals(Tail(text), FALSE, << >>)
  ELSE SplitOutsideLiterals(Tail(text), quoted, Append(piece, Head(text)))
LiteralAwareStatements(text) ==
  SelectSeq(Stripped(SplitOutsideLiterals(text, FALSE, << >>)), NonEmpty)

\* C24: a script is split only at the semicolons outside quoted literals:
\* _split_sql_statements gives the literal-aware statements of the script,
\* and the wrapper sends as many statements as the script has.
C24_SplitRespectsLiterals ==
  (run_db = "wrapper" /\ cmdpc \in {"attempt", "returned"}) =>
    /\ _split_sql_statements(sql) = LiteralAwareStatements(sql)
    /\ Len(statements) = Len(LiteralAwareStatements(sql))

\* C28: no statement goes to a client that a successful forced reconnection
\* has closed: not the retried statement, not a later statement of the same
\* migration, not a statement of a later columnar migration of the call.
C28_NoSendOnClosedClient ==
  \A i \in DOMAIN sent :
    sent[i].on_closed =>
      ~\E r \in DOMAIN reconnects :
          /\ reconnects[r].success
          /\ reconnects[r].closed_client = sent[i].client

\* ---------------------------------------------- properties of discovery
\* "exactly 'v' followed by 8 digits"
ExactVersionName(name) ==
  /\ Len(name) = 9
  /\ name[1] = "v"
  /\ \A i \in 2 .. 9 : name[i] \in DecimalDigits

\* C20: an entry of a migrations tree is scanned for scripts if and only if
\* it is a directory whose name is exactly 'v' followed by 8 digits; an
\* entry with any other name contributes no script to the registry.
C20_VersionDirFilter ==
  dirpc = "done" =>
    /\ (scanned # << >>) <=> (isdir /\ ExactVersionName(version_dir))
    /\ ~ExactVersionName(version_dir) => registry = {}

\* C21: after any sequence of create and update calls, authenticate(email,
\* password) returns the user with that email if and only if such a user
\* exists and the password is the one most recently set for it, by create
\* or by a later update carrying a password; it returns None otherwise.
PasswordSetFor(email, password) ==
  \E i \in DOMAIN users : users[i].email = email /\ password_set[i] = password
C21_Authenticate ==
  userpc = "authenticated" =>
    LET call == authenticated[1]
    IN  /\ (call.returned # None) <=> PasswordSetFor(call.email, call.password)
        /\ call.returned # None => call.returned[1].email = call.email

====
